---- MODULE Spec2Model ----
(***************************************************************************)
(* Matchmaking core of the WebAPI session store (webapi/storage/drivers.py, *)
(* class InMemory): groups, slots, queues and parties, with the            *)
(* asynchronously scheduled start_game task stepped at its suspension      *)
(* points.  The store is the one of the development wiring               *)
(* (webapi/server.py: RDB(drivers.SQLite()), KVS(drivers.InMemory())):     *)
(* SQLite.get_game_by_id contains no await, so await RDB.get_game_by_id    *)
(* never yields to the event loop; a @fake_async method yields once        *)
(* (sleep(0)) and then runs its body without interruption.  The places     *)
(* where another coroutine can run inside an operation are therefore       *)
(* await MSG.send_message in start_game and await self.leave_queue in      *)
(* mark_as_not_ready, and the model has one action per stretch of code     *)
(* between two of them.                                                    *)
(***************************************************************************)
EXTENDS Integers, Sequences, FiniteSets, TLC

\* ---------------------------------------------------------------- bounds
NumUsers == 2
MaxGroups == 2
MaxSlots == 2
MaxParties == 2
CapA == 2
CapB == 1
CapC == 3
NumPlayers == 4
NumPackPlayers == 3
MaxLeaving == 1
NumOwners == 2
NumJoiners == 2
NumCalls == 2
MaxTime == 3
TokenLife == 2
MaxTokens == 2
MaxConns == 2

\* ------------------------------------------------------------- constants
None == 0
GameA == 1
GameB == 2
UnknownGame == 3
GameC == 4

Users == 1..NumUsers
GroupIds == 1..MaxGroups
Games == {GameA, GameB, GameC}
GameIds == {GameA, GameB, UnknownGame}

GROUP_CHECK == "group-check"
IN_QUEUE == "in-queue"
PARTY_CHECK == "party-check"
PLAYING == "playing"
State == {GROUP_CHECK, IN_QUEUE, PARTY_CHECK, PLAYING}

\* Identity store: the games table, read through RDB.get_game_by_id.
capacity(gameid) == IF gameid = GameA THEN CapA ELSE IF gameid = GameB THEN CapB ELSE CapC

\* The in-process session store and its start_game tasks.
VARIABLES users, groups, queues, slots, parties, tasks, leaving, nextGroup, nextSlot

\* The Redis session store and the join_group calls in flight on it.
VARIABLES redis, calls

storeVars == <<users, groups, queues, slots, parties, tasks, leaving, nextGroup, nextSlot>>

\* The token gate: the clock, the tokens made so far, the session-store
\* backend in use with its revocation set (the list of InMemory, the sorted
\* set "trl" of Redis), and the response to the last request.
VARIABLES now, issued, backend, token_revocation_list, trl, response

\* The message streams: the connections being served, the index of their
\* stop events by queue and user, and the list of their tasks.
VARIABLES conns, stop_events, stream_tasks

redisVars == <<redis, calls>>

gateVars == <<now, issued, backend, token_revocation_list, trl, response>>

streamVars == <<conns, stop_events, stream_tasks>>

\* what the operations of the in-process store never touch
otherVars == <<redisVars, gateVars, streamVars>>

vars == <<storeVars, otherVars>>

\* -------------------------------------------------------- data records
UserKVS(groupid, partyid, ready) ==
    [groupid |-> groupid, partyid |-> partyid, ready |-> ready]

Group(state, members, gameid, slotid, partyid) ==
    [state |-> state, members |-> members, gameid |-> gameid,
     slotid |-> slotid, partyid |-> partyid]

\* live: the Slot object is a value of the self.slots dict.  An object
\* deleted from the dict stays reachable from a start_game task that holds
\* it in its local variable; gameid is the queue the slot was created in.
Slot(players, grps, gameid) ==
    [players |-> players, groups |-> grps, gameid |-> gameid, live |-> TRUE]

Party(gameid, slotid) == [gameid |-> gameid, slotid |-> slotid]

\* ------------------------------------------------ dict and list helpers
Put(f, k, v) == [x \in (DOMAIN f) \cup {k} |-> IF x = k THEN v ELSE f[x]]

Del(f, k) == [x \in (DOMAIN f) \ {k} |-> f[x]]

Contains(s, x) == \E i \in 1..Len(s) : s[i] = x

IndexOf(s, x) == CHOOSE i \in 1..Len(s) : s[i] = x /\ \A j \in 1..(i - 1) : s[j] # x

\* list.remove(x) when x is in the list: drops the first occurrence
ListRemove(s, x) ==
    LET i == IndexOf(s, x) IN SubSeq(s, 1, i - 1) \o SubSeq(s, i + 1, Len(s))

Range(s) == {s[i] : i \in 1..Len(s)}

SlotKeys == {s \in DOMAIN slots : slots[s].live}

Store ==
    [users |-> users, groups |-> groups, queues |-> queues,
     slots |-> slots, parties |-> parties]

SetStore(st) ==
    /\ users' = st.users
    /\ groups' = st.groups
    /\ queues' = st.queues
    /\ slots' = st.slots
    /\ parties' = st.parties

Result(st, res) == [st |-> st, res |-> res]

\* ----------------------------------------------------------- get_user
\* The user's record, or the error raised when the store has none.
get_user(st, userid) ==
    IF userid \notin DOMAIN st.users
    THEN [res |-> "PlayerNotInGroup"]
    ELSE [res |-> "ok", user |-> st.users[userid]]

\* ---------------------------------------------------- Redis.join_group
\* Under the production wiring (server.py:105-108) the session store is
\* Redis and the identity store Postgres.  Every await self.redis.<command>
\* and the await RDB.get_game_by_id is a suspension point: the command runs
\* on its own, and other calls run between one command and the next.
RedisOwners == 1..NumOwners

Joiners == (NumOwners + 1)..(NumOwners + NumJoiners)

RedisUsers == RedisOwners \cup Joiners

\* the ids of the groups of the owners, and one id that names no group
RedisGroupIds == 1..(NumOwners + 1)

Calls == 1..NumCalls

\* The keys after create_group(g, GameA) by each owner g, the group id
\* being the owner's number; a key that is not set reads None ("nil" where
\* the values of the key are strings).
RedisInit ==
    [user_groupid  |-> [u \in RedisUsers |-> IF u \in RedisOwners THEN u ELSE None],
     user_ready    |-> [u \in RedisUsers |-> IF u \in RedisOwners THEN "0" ELSE "nil"],
     group_state   |-> [g \in RedisGroupIds |-> IF g \in RedisOwners THEN GROUP_CHECK ELSE "nil"],
     group_gameid  |-> [g \in RedisGroupIds |-> IF g \in RedisOwners THEN GameA ELSE None],
     group_members |-> [g \in RedisGroupIds |-> IF g \in RedisOwners THEN {g} ELSE {}]]

\* One join_group(groupid, userid) call: pc names the command the call is
\* about to send, res what the call returned or raised.
Call(pc, groupid, userid, res) ==
    [pc |-> pc, groupid |-> groupid, userid |-> userid, res |-> res]

IdleCall == Call("idle", None, None, "none")

Raise(rd, c, exc) == [rd |-> rd, c |-> Call("done", c.groupid, c.userid, exc)]

Goto(rd, c, pc) == [rd |-> rd, c |-> Call(pc, c.groupid, c.userid, c.res)]

\* The part of Redis.join_group from one suspension point to the next,
\* for the call c on the keys rd.
Redis_join_group(rd, c) ==
    LET g == c.groupid
        u == c.userid
    IN
    CASE c.pc = "get_user_groupid" ->
            IF rd.user_groupid[u] # None
            THEN Raise(rd, c, "PlayerInGroupAlready")
            ELSE Goto(rd, c, "set_user_ready")
      [] c.pc = "set_user_ready" ->
            Goto([rd EXCEPT !.user_ready[u] = "0"], c, "get_group_gameid")
      [] c.pc = "get_group_gameid" ->
            IF rd.group_gameid[g] = None
            THEN Raise(rd, c, "GroupDoesntExist")
            ELSE Goto(rd, c, "get_group_state")
      [] c.pc = "get_group_state" ->
            IF rd.group_state[g] # GROUP_CHECK
            THEN Raise(rd, c, "WrongGroupState")
            ELSE Goto(rd, c, "get_game_by_id")
      [] c.pc = "get_game_by_id" ->
            IF rd.group_gameid[g] \notin Games
            THEN Raise(rd, c, "NotFoundError")
            ELSE Goto(rd, c, "scard")
      [] c.pc = "scard" ->
            IF Cardinality(rd.group_members[g]) + 1 > capacity(rd.group_gameid[g])
            THEN Raise(rd, c, "GroupIsFull")
            ELSE Goto(rd, c, "set_user_groupid")
      [] c.pc = "set_user_groupid" ->
            Goto([rd EXCEPT !.user_groupid[u] = g], c, "sadd")
      [] c.pc = "sadd" ->
            Goto([rd EXCEPT !.group_members[g] = @ \cup {u}], c, "set_user_ready_again")
      [] c.pc = "set_user_ready_again" ->
            [rd |-> [rd EXCEPT !.user_ready[u] = "0"],
             c  |-> Call("done", g, u, "ok")]

\* A request handler calls KVS.join_group(groupid, userid).
RedisJoinGroupCall(r, groupid, userid) ==
    /\ calls[r].pc = "idle"
    /\ calls' = [calls EXCEPT ![r] = Call("get_user_groupid", groupid, userid, "none")]
    /\ UNCHANGED <<redis, storeVars, gateVars, streamVars>>

\* The event loop resumes the call r: it runs to its next suspension point.
RedisJoinGroupStep(r) ==
    /\ calls[r].pc \notin {"idle", "done"}
    /\ redis' = Redis_join_group(redis, calls[r]).rd
    /\ calls' = [calls EXCEPT ![r] = Redis_join_group(redis, calls[r]).c]
    /\ UNCHANGED <<storeVars, gateVars, streamVars>>

NextRedis ==
    \/ \E r \in Calls, g \in RedisGroupIds, u \in Joiners : RedisJoinGroupCall(r, g, u)
    \/ \E r \in Calls : RedisJoinGroupStep(r)

\* ------------------------------------------------------- token gate
ADMIN == "admin"
PLAYER == "player"
GAME == "game"
ClientType == {ADMIN, PLAYER, GAME, "webapi", "manager"}

\* A token: key is the key it is signed with; jti is None when the token
\* has no "jti" claim.
Token(key, exp, jti, typ) == [key |-> key, exp |-> exp, jti |-> jti, typ |-> typ]

\* The Authorization header: None when absent, else its scheme (the text
\* before the token, "" for an empty header) and the token.
Bearer(scheme, token) == [scheme |-> scheme, token |-> token]

NoHeader == [scheme |-> "absent"]

Response(status, error, ran) == [status |-> status, error |-> error, ran |-> ran]

NoResponse == Response(0, "", FALSE)

\* jwtlib.decode(token, JWT_SECRET): the signature must match and the token
\* must not have expired.  Whether a token whose "exp" is the current
\* second has expired depends on the release of the library, so both
\* answers are possible there.
DecodeOutcomes(token, time) ==
    IF token.key # "JWT_SECRET" \/ token.exp < time THEN {FALSE}
    ELSE IF token.exp = time THEN {TRUE, FALSE}
    ELSE {TRUE}

\* InMemory.is_token_revoked / Redis.is_token_revoked (zscore)
is_token_revoked(token_id) ==
    IF backend = "InMemory"
    THEN Contains(token_revocation_list, token_id)
    ELSE token_id \in DOMAIN trl

\* authenticate_wrapped: the response when the request is turned down, or
\* the 200 of the wrapped handler; decoded is what jwtlib.decode answered.
\* jwt["jti"] on a token without that claim is a KeyError, which the
\* server answers with 500.
authenticate(bearer, allowed_client_types, decoded) ==
    IF bearer = NoHeader \/ bearer.scheme = ""
    THEN Response(401, "Authorization header required", FALSE)
    ELSE IF bearer.scheme # "Bearer:"
    THEN Response(401, "Bearer authorization type required", FALSE)
    ELSE IF ~decoded
    THEN Response(403, "Invalid token", FALSE)
    ELSE IF bearer.token.jti = None
    THEN Response(500, "KeyError", FALSE)
    ELSE IF is_token_revoked(bearer.token.jti)
    THEN Response(403, "Revoked token", FALSE)
    ELSE IF bearer.token.typ \notin ClientType
    THEN Response(500, "ValueError", FALSE)
    ELSE IF bearer.token.typ \notin allowed_client_types
    THEN Response(403, "Restricted access", FALSE)
    ELSE Response(200, "", TRUE)

\* The tokens a client can send: the ones made by the service, and the
\* same signed with another key.
Presentable == issued \cup {Token("wrong", t.exp, t.jti, t.typ) : t \in issued}

Headers ==
    {NoHeader, [scheme |-> ""]}
        \cup {Bearer(sch, t) : sch \in {"Bearer:", "Basic"}, t \in Presentable}

\* the allowed_client_types of the routes
Endpoints == {{PLAYER, ADMIN}, {ADMIN}}

LoginTokens == {t \in issued : t.jti # None}

\* time passes
Tick ==
    /\ now < MaxTime
    /\ now' = now + 1
    /\ UNCHANGED <<issued, backend, token_revocation_list, trl, response>>
    /\ UNCHANGED <<storeVars, redisVars, streamVars>>

\* login_: a token with a fresh "jti" for a player or an admin
Login(typ) ==
    /\ Cardinality(LoginTokens) < MaxTokens
    /\ issued' = issued \cup
          {Token("JWT_SECRET", now + TokenLife, Cardinality(LoginTokens) + 1, typ)}
    /\ UNCHANGED <<now, backend, token_revocation_list, trl, response>>
    /\ UNCHANGED <<storeVars, redisVars, streamVars>>

\* tools.generate_token(JWT_SECRET, typ=ADMIN): the token the service
\* makes for its own calls; it carries "tid" and no "jti".
GenerateToken ==
    /\ issued' = issued \cup {Token("JWT_SECRET", now + TokenLife, None, ADMIN)}
    /\ UNCHANGED <<now, backend, token_revocation_list, trl, response>>
    /\ UNCHANGED <<storeVars, redisVars, streamVars>>

\* A request to a route wrapped by authenticate whose handler leaves the
\* revocation set alone.
Request(bearer, allowed_client_types) ==
    /\ \E decoded \in (IF bearer \in {NoHeader, [scheme |-> ""]} THEN {FALSE}
                       ELSE DecodeOutcomes(bearer.token, now)) :
          response' = authenticate(bearer, allowed_client_types, decoded)
    /\ UNCHANGED <<now, issued, backend, token_revocation_list, trl>>
    /\ UNCHANGED <<storeVars, redisVars, streamVars>>

\* InMemory.revoke_token: the list gets the token id.
\* Redis.revoke_token: zremrangebyscore("trl", 0, int(time())), then
\* zadd("trl", token["exp"], token["jti"]).
revoke_token(token) ==
    IF backend = "InMemory"
    THEN /\ token_revocation_list' = Append(token_revocation_list, token.jti)
         /\ UNCHANGED trl
    ELSE /\ trl' = Put([j \in {k \in DOMAIN trl : ~(0 <= trl[k] /\ trl[k] <= now)}
                          |-> trl[j]],
                       token.jti, token.exp)
         /\ UNCHANGED token_revocation_list

\* logout: DELETE /v1/auth/, open to players and admins; the handler
\* revokes the token of the request.
Logout(bearer) ==
    /\ \E decoded \in (IF bearer \in {NoHeader, [scheme |-> ""]} THEN {FALSE}
                       ELSE DecodeOutcomes(bearer.token, now)) :
          LET r == authenticate(bearer, {PLAYER, ADMIN}, decoded) IN
          IF r.ran
          THEN /\ revoke_token(bearer.token)
               /\ response' = Response(204, "", TRUE)
          ELSE /\ response' = r
               /\ UNCHANGED <<token_revocation_list, trl>>
    /\ UNCHANGED <<now, issued, backend>>
    /\ UNCHANGED <<storeVars, redisVars, streamVars>>

NextGate ==
    \/ Tick
    \/ \E typ \in {ADMIN, PLAYER} : Login(typ)
    \/ GenerateToken
    \/ \E bearer \in Headers, allowed \in Endpoints : Request(bearer, allowed)
    \/ \E bearer \in Headers : Logout(bearer)

\* ----------------------------------------------------- message streams
USER == "user"
GROUP == "group"
PARTY == "party"
MsgQueueType == {USER, GROUP, PARTY}

ConnIds == 1..MaxConns

\* One streaming connection, that is one run of stream_until_event_is_set.
\* pc: "none" before the request, "waiting" in await stop_event.wait(),
\* "ended" after the clean-up.  stop: stop_event is set.  sf, hb: the state
\* of sf_task (sub_bridge) and of hb_task (heartbeat).  sub: the SUB socket
\* of recv_messages.  closing: res.transport.is_closing().  wrote_closed:
\* res.write was called on a closing transport.
Conn(pc, userid, queue, stop, sf, hb, sub, closing) ==
    [pc |-> pc, userid |-> userid, queue |-> queue, stop |-> stop,
     sf |-> sf, hb |-> hb, sub |-> sub, closing |-> closing,
     wrote_closed |-> FALSE]

\* res.write(...) on the transport of connection c
write(cn, c) == [cn EXCEPT ![c].wrote_closed = @ \/ cn[c].closing]

NoConn == Conn("none", None, "", FALSE, "none", "none", "none", FALSE)

\* stop_events[queue][userid] of the defaultdict(list): reading a missing
\* key yields the empty list
EventsOf(se, queue, userid) ==
    IF userid \in DOMAIN se[queue] THEN se[queue][userid] ELSE << >>

\* task.cancel(): a task that has finished stays as it is
cancel(state) == IF state = "done" THEN "done" ELSE "cancelled"

\* get_user_msg, get_group_msg, get_party_msg: what the route asks of the
\* session of the user before it streams
MayStream(userid, queue) ==
    \/ queue = USER
    \/ queue = GROUP /\ get_user(Store, userid).res = "ok"
                     /\ get_user(Store, userid).user.groupid # None
    \/ queue = PARTY /\ get_user(Store, userid).res = "ok"
                     /\ get_user(Store, userid).user.partyid # None

\* The ids of users, groups and parties are uuid4() draws: an id of one
\* kind is never equal to an id of another kind.  The model numbers each
\* kind from 1, so an id is compared together with its kind.
UserUuid(userid) == <<"user", userid>>
GroupUuid(groupid) == <<"group", groupid>>
PartyUuid(partyid) == <<"party", partyid>>

\* "{}:{!s}".format(queue.value, id_): the topic of a message and the
\* pattern of a subscription
Topic(queue, id_) == <<queue, id_>>

\* the topic on which the route of the queue has greetings() publish
greetings(st, userid, queue) ==
    IF queue = USER THEN Topic(USER, UserUuid(userid))
    ELSE IF queue = GROUP THEN Topic(GROUP, GroupUuid(get_user(st, userid).user.groupid))
    ELSE Topic(PARTY, GroupUuid(get_user(st, userid).user.groupid))

\* the topic to which the stream of the route subscribes (queue, queueid)
recv_messages(st, userid, queue) ==
    IF queue = USER THEN Topic(USER, UserUuid(userid))
    ELSE IF queue = GROUP THEN Topic(GROUP, GroupUuid(get_user(st, userid).user.groupid))
    ELSE Topic(PARTY, PartyUuid(get_user(st, userid).user.partyid))

\* stream_until_event_is_set up to await stop_event.wait()
Connect(c, userid, queue) ==
    /\ conns[c].pc = "none"
    /\ \A d \in 1..(c - 1) : conns[d].pc # "none"
    /\ MayStream(userid, queue)
    /\ conns' = [conns EXCEPT ![c] = Conn("waiting", userid, queue, FALSE,
                                          "scheduled", "running", "none", FALSE)]
    /\ stop_events' = [stop_events EXCEPT ![queue] =
                          Put(@, userid, Append(EventsOf(stop_events, queue, userid), c))]
    /\ stream_tasks' = stream_tasks \o << <<c, "sf">>, <<c, "hb">> >>
    /\ UNCHANGED <<storeVars, redisVars, gateVars>>

\* sub_bridge up to its first wait for a message: recv_messages opens the
\* SUB socket and subscribes
SubBridgeStart(c) ==
    /\ conns[c].sf = "scheduled"
    /\ conns' = [conns EXCEPT ![c].sf = "receiving", ![c].sub = "open"]
    /\ UNCHANGED <<stop_events, stream_tasks>>
    /\ UNCHANGED <<storeVars, redisVars, gateVars>>

\* sub_bridge gets a message.  On a closing transport it sets the stop
\* event and sends the sentinel, on which recv_messages closes the socket
\* and ends; otherwise it writes the message and waits for the next.
SubBridgeMessage(c) ==
    /\ conns[c].sf = "receiving"
    /\ conns' = IF conns[c].closing
                THEN [conns EXCEPT ![c].stop = TRUE, ![c].sub = "closed", ![c].sf = "done"]
                ELSE write(conns, c)
    /\ UNCHANGED <<stop_events, stream_tasks>>
    /\ UNCHANGED <<storeVars, redisVars, gateVars>>

\* heartbeat that writes after every sleep, whatever the transport
HeartbeatWritesAlways(c) ==
    /\ conns[c].hb = "running"
    /\ conns' = write(conns, c)
    /\ UNCHANGED <<stop_events, stream_tasks>>
    /\ UNCHANGED <<storeVars, redisVars, gateVars>>

\* heartbeat after a sleep of 30 seconds
Heartbeat(c) ==
    /\ conns[c].hb = "running"
    /\ conns' = IF conns[c].closing
                THEN [conns EXCEPT ![c].stop = TRUE, ![c].hb = "done"]
                ELSE write(conns, c)
    /\ UNCHANGED <<stop_events, stream_tasks>>
    /\ UNCHANGED <<storeVars, redisVars, gateVars>>

\* the client goes away
TransportClose(c) ==
    /\ conns[c].pc = "waiting"
    /\ ~conns[c].closing
    /\ conns' = [conns EXCEPT ![c].closing = TRUE]
    /\ UNCHANGED <<stop_events, stream_tasks>>
    /\ UNCHANGED <<storeVars, redisVars, gateVars>>

\* kick_user with the lookup by user alone: the stop events of the user
\* in every queue are set
kick_user_from_every_queue(cn, se, queue, userid) ==
    [conns |-> [c \in ConnIds |->
                   IF \E q \in MsgQueueType : Contains(EventsOf(se, q, userid), c)
                   THEN [cn[c] EXCEPT !.stop = TRUE] ELSE cn[c]],
     stop_events |-> [se EXCEPT ![queue] =
                         Put(@, userid, EventsOf(se, queue, userid))]]

\* kick_user: for event in stop_events[queue][userid].copy(): event.set()
\* The lookup leaves an empty list in the index when the user has none.
kick_user(cn, se, queue, userid) ==
    [conns |-> [c \in ConnIds |->
                   IF Contains(EventsOf(se, queue, userid), c)
                   THEN [cn[c] EXCEPT !.stop = TRUE] ELSE cn[c]],
     stop_events |-> [se EXCEPT ![queue] =
                         Put(@, userid, EventsOf(se, queue, userid))]]

\* DELETE /v1/msgqueues/kick/<userid>/from/<queue>, past the gate
Kick(userid, queue) ==
    /\ conns' = kick_user(conns, stop_events, queue, userid).conns
    /\ stop_events' = kick_user(conns, stop_events, queue, userid).stop_events
    /\ UNCHANGED stream_tasks
    /\ UNCHANGED <<storeVars, redisVars, gateVars>>

\* close_all_connections that walks the index of the user queue alone
CloseAllUserQueue ==
    /\ conns' = [c \in ConnIds |->
                    IF conns[c].pc = "waiting"
                    THEN [conns[c] EXCEPT
                             !.sf = IF Contains(stream_tasks, <<c, "sf">>) THEN cancel(@) ELSE @,
                             !.hb = IF Contains(stream_tasks, <<c, "hb">>) THEN cancel(@) ELSE @,
                             !.stop = \/ @
                                      \/ Contains(EventsOf(stop_events, USER,
                                                           conns[c].userid), c)]
                    ELSE conns[c]]
    /\ UNCHANGED <<stop_events, stream_tasks>>
    /\ UNCHANGED <<storeVars, redisVars, gateVars>>

\* close_all_connections: every listed task is cancelled, every event set
CloseAll ==
    /\ conns' = [c \in ConnIds |->
                    IF conns[c].pc = "waiting"
                    THEN [conns[c] EXCEPT
                             !.sf = IF Contains(stream_tasks, <<c, "sf">>) THEN cancel(@) ELSE @,
                             !.hb = IF Contains(stream_tasks, <<c, "hb">>) THEN cancel(@) ELSE @,
                             !.stop = \/ @
                                      \/ Contains(EventsOf(stop_events, conns[c].queue,
                                                           conns[c].userid), c)]
                    ELSE conns[c]]
    /\ UNCHANGED <<stop_events, stream_tasks>>
    /\ UNCHANGED <<storeVars, redisVars, gateVars>>

\* stream_until_event_is_set from sf_task.cancel() to its end
CleanUp(c) ==
    LET queue == conns[c].queue
        userid == conns[c].userid
        left == ListRemove(EventsOf(stop_events, queue, userid), c)
    IN
    /\ conns' = [conns EXCEPT ![c].pc = "ended",
                              ![c].sf = cancel(@),
                              ![c].hb = cancel(@)]
    /\ stop_events' = [stop_events EXCEPT ![queue] =
                          IF left = << >> THEN Del(@, userid) ELSE Put(@, userid, left)]
    /\ stream_tasks' = ListRemove(ListRemove(stream_tasks, <<c, "sf">>), <<c, "hb">>)
    /\ UNCHANGED <<storeVars, redisVars, gateVars>>

\* await stop_event.wait() returns: the event is set
StreamEnd(c) ==
    /\ conns[c].pc = "waiting"
    /\ conns[c].stop
    /\ CleanUp(c)

\* the handler task is cancelled while it waits: the CancelledError is
\* suppressed and the clean-up runs
HandlerCancel(c) ==
    /\ conns[c].pc = "waiting"
    /\ ~conns[c].stop
    /\ CleanUp(c)

\* the queues of the requests
StreamQueues == MsgQueueType

\* the users and queues of the kicks: those for which a stream can be open
KickTargets == {t \in Users \X StreamQueues : MayStream(t[1], t[2])}

\* a kick request of the model
KickRequest(userid, queue) ==
    /\ <<userid, queue>> \in KickTargets
    /\ Kick(userid, queue)

NextStreams ==
    \/ \E c \in ConnIds, u \in Users, q \in StreamQueues : Connect(c, u, q)
    \/ \E c \in ConnIds : SubBridgeStart(c)
    \/ \E c \in ConnIds : SubBridgeMessage(c)
    \/ \E c \in ConnIds : Heartbeat(c)
    \/ \E c \in ConnIds : TransportClose(c)
    \/ \E u \in Users, q \in StreamQueues : KickRequest(u, q)
    \/ CloseAll
    \/ \E c \in ConnIds : StreamEnd(c)
    \/ \E c \in ConnIds : HandlerCancel(c)

\* The state after construction under the development wiring
\* (server.py:109-112): the empty in-process store, no request yet.  The
\* Redis keys are the ones the join_group calls start from.
Init ==
    /\ users = << >>
    /\ groups = << >>
    /\ queues = << >>
    /\ slots = << >>
    /\ parties = << >>
    /\ tasks = << >>
    /\ leaving = {}
    /\ nextGroup = 1
    /\ nextSlot = 1
    /\ redis = RedisInit
    /\ calls = [r \in Calls |-> IdleCall]
    /\ now = 0
    /\ issued = {}
    /\ backend = "InMemory"
    /\ token_revocation_list = << >>
    /\ trl = << >>
    /\ response = NoResponse
    /\ conns = [c \in ConnIds |-> NoConn]
    /\ stop_events = [q \in MsgQueueType |-> << >>]
    /\ stream_tasks = << >>

\* The same with either session-store backend behind the gate.
InitGate ==
    /\ users = << >>
    /\ groups = << >>
    /\ queues = << >>
    /\ slots = << >>
    /\ parties = << >>
    /\ tasks = << >>
    /\ leaving = {}
    /\ nextGroup = 1
    /\ nextSlot = 1
    /\ redis = RedisInit
    /\ calls = [r \in Calls |-> IdleCall]
    /\ now = 0
    /\ issued = {}
    /\ backend \in {"InMemory", "Redis"}
    /\ token_revocation_list = << >>
    /\ trl = << >>
    /\ response = NoResponse
    /\ conns = [c \in ConnIds |-> NoConn]
    /\ stop_events = [q \in MsgQueueType |-> << >>]
    /\ stream_tasks = << >>

SpecGate == InitGate /\ [][NextGate]_vars

\* The streams are opened on a store where user 1 plays alone in a party
\* of GameB (create_group(1, GameB), mark_as_ready, join_queue, start_game)
\* and user 2 has no session.
InitStreams ==
    /\ users = (1 :> UserKVS(1, 1, TRUE))
    /\ groups = (1 :> Group(PLAYING, <<1>>, GameB, 1, 1))
    /\ queues = (GameB :> << >>)
    /\ slots = (1 :> Slot(<<1>>, <<1>>, GameB))
    /\ parties = (1 :> Party(GameB, 1))
    /\ tasks = <<[gameid |-> GameB, slotid |-> 1, pc |-> "running", idx |-> 0, cur |-> 0]>>
    /\ leaving = {}
    /\ nextGroup = 2
    /\ nextSlot = 2
    /\ redis = RedisInit
    /\ calls = [r \in Calls |-> IdleCall]
    /\ now = 0
    /\ issued = {}
    /\ backend = "InMemory"
    /\ token_revocation_list = << >>
    /\ trl = << >>
    /\ response = NoResponse
    /\ conns = [c \in ConnIds |-> NoConn]
    /\ stop_events = [q \in MsgQueueType |-> << >>]
    /\ stream_tasks = << >>

SpecStreams == InitStreams /\ [][NextStreams]_vars

\* await stop_event.wait() returns once the event is set, and the rest of
\* stream_until_event_is_set has no await: the event loop runs it to its end
SpecStreamsFair == SpecStreams /\ \A c \in ConnIds : WF_vars(StreamEnd(c))

\* asyncio.sleep(30) returns: the timer of every running heartbeat fires
SpecStreamsBeat == SpecStreams /\ \A c \in ConnIds : WF_vars(Heartbeat(c))

SpecRedis == Init /\ [][NextRedis]_vars

\* ------------------------------------------------------- create_group
\* Variant of create_group without the guard on the caller's session.
create_group_unguarded(st, userid, gameid, groupid) ==
    Result([st EXCEPT
              !.users = Put(st.users, userid, UserKVS(groupid, None, FALSE)),
              !.groups = Put(st.groups, groupid,
                             Group(GROUP_CHECK, <<userid>>, gameid, None, None))],
           "ok")

create_group(st, userid, gameid, groupid) ==
    IF userid \in DOMAIN st.users /\ st.users[userid].groupid # None
    THEN Result(st, "PlayerInGroupAlready")
    ELSE Result([st EXCEPT
                   !.users = Put(st.users, userid, UserKVS(groupid, None, FALSE)),
                   !.groups = Put(st.groups, groupid,
                                  Group(GROUP_CHECK, <<userid>>, gameid, None, None))],
                "ok")

CreateGroup(userid, gameid) ==
    LET r == create_group(Store, userid, gameid, nextGroup) IN
    /\ r.res = "ok" => nextGroup <= MaxGroups
    /\ SetStore(r.st)
    /\ nextGroup' = IF r.res = "ok" THEN nextGroup + 1 ELSE nextGroup
    /\ UNCHANGED <<tasks, leaving, nextSlot, otherVars>>

\* ---------------------------------------------------------- get_group
get_group(st, groupid) ==
    IF groupid \notin DOMAIN st.groups
    THEN "GroupDoesntExist"
    ELSE "ok"

\* --------------------------------------------------------- join_group
\* Variant of join_group without the test of the group's state.
join_group_any_state(st, groupid, userid) ==
    IF userid \in DOMAIN st.users /\ st.users[userid].groupid # None
    THEN Result(st, "PlayerInGroupAlready")
    ELSE IF groupid \notin DOMAIN st.groups
    THEN Result(st, "GroupDoesntExist")
    ELSE IF st.groups[groupid].gameid \notin Games
    THEN Result(st, "NotFoundError")
    ELSE IF Len(st.groups[groupid].members) + 1 > capacity(st.groups[groupid].gameid)
    THEN Result(st, "GroupIsFull")
    ELSE Result([st EXCEPT
                   !.users = Put(st.users, userid, UserKVS(groupid, None, FALSE)),
                   !.groups[groupid].members = Append(@, userid)],
                "ok")

\* Variant of join_group whose capacity test lets one member too many in.
join_group_overfull(st, groupid, userid) ==
    IF userid \in DOMAIN st.users /\ st.users[userid].groupid # None
    THEN Result(st, "PlayerInGroupAlready")
    ELSE IF groupid \notin DOMAIN st.groups
    THEN Result(st, "GroupDoesntExist")
    ELSE IF st.groups[groupid].state # GROUP_CHECK
    THEN Result(st, "WrongGroupState")
    ELSE IF st.groups[groupid].gameid \notin Games
    THEN Result(st, "NotFoundError")
    ELSE IF Len(st.groups[groupid].members) > capacity(st.groups[groupid].gameid)
    THEN Result(st, "GroupIsFull")
    ELSE Result([st EXCEPT
                   !.users = Put(st.users, userid, UserKVS(groupid, None, FALSE)),
                   !.groups[groupid].members = Append(@, userid)],
                "ok")

\* Variant of join_group without the guard on the caller's session.
join_group_unguarded(st, groupid, userid) ==
    IF groupid \notin DOMAIN st.groups
    THEN Result(st, "GroupDoesntExist")
    ELSE IF st.groups[groupid].state # GROUP_CHECK
    THEN Result(st, "WrongGroupState")
    ELSE IF st.groups[groupid].gameid \notin Games
    THEN Result(st, "NotFoundError")
    ELSE IF Len(st.groups[groupid].members) + 1 > capacity(st.groups[groupid].gameid)
    THEN Result(st, "GroupIsFull")
    ELSE Result([st EXCEPT
                   !.users = Put(st.users, userid, UserKVS(groupid, None, FALSE)),
                   !.groups[groupid].members = Append(@, userid)],
                "ok")

join_group(st, groupid, userid) ==
    IF userid \in DOMAIN st.users /\ st.users[userid].groupid # None
    THEN Result(st, "PlayerInGroupAlready")
    ELSE IF groupid \notin DOMAIN st.groups
    THEN Result(st, "GroupDoesntExist")
    ELSE IF st.groups[groupid].state # GROUP_CHECK
    THEN Result(st, "WrongGroupState")
    ELSE IF st.groups[groupid].gameid \notin Games
    THEN Result(st, "NotFoundError")
    ELSE IF Len(st.groups[groupid].members) + 1 > capacity(st.groups[groupid].gameid)
    THEN Result(st, "GroupIsFull")
    ELSE Result([st EXCEPT
                   !.users = Put(st.users, userid, UserKVS(groupid, None, FALSE)),
                   !.groups[groupid].members = Append(@, userid)],
                "ok")

JoinGroup(groupid, userid) ==
    LET r == join_group(Store, groupid, userid) IN
    /\ SetStore(r.st)
    /\ UNCHANGED <<tasks, leaving, nextGroup, nextSlot, otherVars>>

\* ------------------------------------------------------- mark_as_ready
\* Variant of mark_as_ready without the test of the group's state.
mark_as_ready_any_state(st, userid) ==
    IF userid \notin DOMAIN st.users \/ st.users[userid].groupid = None
    THEN Result(st, "PlayerNotInGroup")
    ELSE IF st.users[userid].groupid \notin DOMAIN st.groups
    THEN Result(st, "KeyError")
    ELSE Result([st EXCEPT !.users[userid].ready = TRUE], "ok")

mark_as_ready(st, userid) ==
    IF userid \notin DOMAIN st.users \/ st.users[userid].groupid = None
    THEN Result(st, "PlayerNotInGroup")
    ELSE IF st.users[userid].groupid \notin DOMAIN st.groups
    THEN Result(st, "KeyError")
    ELSE IF st.groups[st.users[userid].groupid].state \notin {GROUP_CHECK, PARTY_CHECK}
    THEN Result(st, "WrongGroupState")
    ELSE Result([st EXCEPT !.users[userid].ready = TRUE], "ok")

MarkAsReady(userid) ==
    LET r == mark_as_ready(Store, userid) IN
    /\ SetStore(r.st)
    /\ UNCHANGED <<tasks, leaving, nextGroup, nextSlot, otherVars>>

\* --------------------------------------------------------- leave_queue
\* for member in group.members: slot.players.remove(member)
\* stops at the first member that is not in the list (ValueError).
RECURSIVE RemoveEach(_, _)
RemoveEach(players, members) ==
    IF members = << >>
    THEN [players |-> players, ok |-> TRUE]
    ELSE IF ~Contains(players, Head(members))
    THEN [players |-> players, ok |-> FALSE]
    ELSE RemoveEach(ListRemove(players, Head(members)), Tail(members))

\* Variant of leave_queue that keeps an emptied slot, and its queue entry.
leave_queue_keeps_slot(st, groupid) ==
    IF groupid \notin DOMAIN st.groups
    THEN Result(st, "GroupDoesntExist")
    ELSE LET group == st.groups[groupid]
             slotid == group.slotid
         IN
         IF group.state # IN_QUEUE
         THEN Result(st, "WrongGroupState")
         ELSE IF slotid \notin DOMAIN st.slots \/ ~st.slots[slotid].live
         THEN Result(st, "KeyError")
         ELSE IF ~Contains(st.slots[slotid].groups, groupid)
         THEN Result(st, "ValueError")
         ELSE LET rem == RemoveEach(st.slots[slotid].players, group.members) IN
              Result([st EXCEPT !.slots[slotid].groups = ListRemove(@, groupid),
                                !.slots[slotid].players = rem.players,
                                !.groups[groupid].slotid = None,
                                !.groups[groupid].state = GROUP_CHECK],
                     IF rem.ok THEN "ok" ELSE "ValueError")

leave_queue(st, groupid) ==
    IF groupid \notin DOMAIN st.groups
    THEN Result(st, "GroupDoesntExist")
    ELSE LET group == st.groups[groupid]
             slotid == group.slotid
         IN
         IF group.state # IN_QUEUE
         THEN Result(st, "WrongGroupState")
         ELSE IF slotid \notin DOMAIN st.slots \/ ~st.slots[slotid].live
         THEN Result(st, "KeyError")
         ELSE IF ~Contains(st.slots[slotid].groups, groupid)
         THEN Result(st, "ValueError")
         ELSE LET grps == ListRemove(st.slots[slotid].groups, groupid)
                  rem == RemoveEach(st.slots[slotid].players, group.members)
                  st1 == [st EXCEPT !.slots[slotid].groups = grps,
                                    !.slots[slotid].players = rem.players]
              IN
              IF ~rem.ok
              THEN Result(st1, "ValueError")
              ELSE IF grps # << >>
              THEN Result([st1 EXCEPT !.groups[groupid].slotid = None,
                                      !.groups[groupid].state = GROUP_CHECK],
                          "ok")
              ELSE LET st2 == [st1 EXCEPT !.slots[slotid].live = FALSE] IN
                   IF group.gameid \notin DOMAIN st.queues
                   THEN Result(st2, "KeyError")
                   ELSE IF ~Contains(st.queues[group.gameid], slotid)
                   THEN Result(st2, "ValueError")
                   ELSE Result([st2 EXCEPT
                                  !.queues[group.gameid] = ListRemove(@, slotid),
                                  !.groups[groupid].slotid = None,
                                  !.groups[groupid].state = GROUP_CHECK],
                               "ok")

LeaveQueue(groupid) ==
    LET r == leave_queue(Store, groupid) IN
    /\ SetStore(r.st)
    /\ UNCHANGED <<tasks, leaving, nextGroup, nextSlot, otherVars>>

\* --------------------------------------------------- mark_as_not_ready
\* The code up to await self.leave_queue(user.groupid); wait is the group
\* id handed to leave_queue, None when the call is not made.
MResult(st, res, wait) == [st |-> st, res |-> res, wait |-> wait]

\* Variant of mark_as_not_ready that leaves the ready flag as it finds it.
mark_as_not_ready_keeps_flag(st, userid) ==
    IF userid \notin DOMAIN st.users \/ st.users[userid].groupid = None
    THEN MResult(st, "PlayerNotInGroup", None)
    ELSE IF st.users[userid].groupid \notin DOMAIN st.groups
    THEN MResult(st, "KeyError", None)
    ELSE IF st.groups[st.users[userid].groupid].state
              \notin {GROUP_CHECK, IN_QUEUE, PARTY_CHECK}
    THEN MResult(st, "WrongGroupState", None)
    ELSE MResult(st, "ok",
                 IF st.groups[st.users[userid].groupid].state = IN_QUEUE
                 THEN st.users[userid].groupid ELSE None)

mark_as_not_ready(st, userid) ==
    IF userid \notin DOMAIN st.users \/ st.users[userid].groupid = None
    THEN MResult(st, "PlayerNotInGroup", None)
    ELSE IF st.users[userid].groupid \notin DOMAIN st.groups
    THEN MResult(st, "KeyError", None)
    ELSE IF st.groups[st.users[userid].groupid].state
              \notin {GROUP_CHECK, IN_QUEUE, PARTY_CHECK}
    THEN MResult(st, "WrongGroupState", None)
    ELSE MResult([st EXCEPT !.users[userid].ready = FALSE], "ok",
                 IF st.groups[st.users[userid].groupid].state = IN_QUEUE
                 THEN st.users[userid].groupid ELSE None)

\* leaving holds the group ids of the leave_queue coroutines that
\* mark_as_not_ready awaits and that have not run their body yet; at most
\* MaxLeaving of them are in flight.
MarkAsNotReady(userid) ==
    LET r == mark_as_not_ready(Store, userid) IN
    /\ r.wait # None => r.wait \notin leaving /\ Cardinality(leaving) < MaxLeaving
    /\ SetStore(r.st)
    /\ leaving' = IF r.wait # None THEN leaving \cup {r.wait} ELSE leaving
    /\ UNCHANGED <<tasks, nextGroup, nextSlot, otherVars>>

\* The body of the leave_queue awaited by mark_as_not_ready, run when the
\* event loop resumes it after sleep(0).
MarkAsNotReadyLeave(groupid) ==
    /\ groupid \in leaving
    /\ SetStore(leave_queue(Store, groupid).st)
    /\ leaving' = leaving \ {groupid}
    /\ UNCHANGED <<tasks, nextGroup, nextSlot, otherVars>>

\* --------------------------------------------------------- leave_group
\* In IN_QUEUE the code evaluates self.leave_queue(self, None, group): this
\* builds a coroutine object that is never awaited, so no queue or slot is
\* touched before the member is removed.
\* Variant of leave_group that keeps the session of the leaving user.
leave_group_keeps_session(st, userid) ==
    IF userid \notin DOMAIN st.users \/ st.users[userid].groupid = None
    THEN Result(st, "PlayerNotInGroup")
    ELSE LET groupid == st.users[userid].groupid IN
         IF groupid \notin DOMAIN st.groups
         THEN Result(st, "KeyError")
         ELSE IF ~Contains(st.groups[groupid].members, userid)
         THEN Result(st, "ValueError")
         ELSE LET members == ListRemove(st.groups[groupid].members, userid) IN
              IF members = << >>
              THEN Result([st EXCEPT !.groups = Del(st.groups, groupid)], "ok")
              ELSE Result([st EXCEPT !.groups[groupid].members = members], "ok")

\* Variant of leave_group that keeps a group without members.
leave_group_keeps_group(st, userid) ==
    IF userid \notin DOMAIN st.users \/ st.users[userid].groupid = None
    THEN Result(st, "PlayerNotInGroup")
    ELSE LET groupid == st.users[userid].groupid IN
         IF groupid \notin DOMAIN st.groups
         THEN Result(st, "KeyError")
         ELSE IF st.groups[groupid].state \notin {GROUP_CHECK, IN_QUEUE}
         THEN Result(st, "WrongGroupState")
         ELSE LET st1 == [st EXCEPT !.users = Del(st.users, userid)] IN
              IF ~Contains(st.groups[groupid].members, userid)
              THEN Result(st1, "ValueError")
              ELSE Result([st1 EXCEPT !.groups[groupid].members = ListRemove(@, userid)],
                          "ok")

leave_group(st, userid) ==
    IF userid \notin DOMAIN st.users \/ st.users[userid].groupid = None
    THEN Result(st, "PlayerNotInGroup")
    ELSE LET groupid == st.users[userid].groupid IN
         IF groupid \notin DOMAIN st.groups
         THEN Result(st, "KeyError")
         ELSE IF st.groups[groupid].state \notin {GROUP_CHECK, IN_QUEUE}
         THEN Result(st, "WrongGroupState")
         ELSE LET st1 == [st EXCEPT !.users = Del(st.users, userid)] IN
              IF ~Contains(st.groups[groupid].members, userid)
              THEN Result(st1, "ValueError")
              ELSE LET members == ListRemove(st.groups[groupid].members, userid) IN
                   IF members = << >>
                   THEN Result([st1 EXCEPT !.groups = Del(st.groups, groupid)], "ok")
                   ELSE Result([st1 EXCEPT !.groups[groupid].members = members], "ok")

LeaveGroup(userid) ==
    LET r == leave_group(Store, userid) IN
    /\ SetStore(r.st)
    /\ UNCHANGED <<tasks, leaving, nextGroup, nextSlot, otherVars>>

\* ---------------------------------------------------------- join_queue
QResult(st, res, sched, fresh) ==
    [st |-> st, res |-> res, sched |-> sched, fresh |-> fresh]

\* for userid in group.members: if not self.users[userid].ready: raise ...
\* the outcome of the loop is decided by the first member that stops it.
ReadyCheck(st, members) ==
    LET stops(i) == \/ members[i] \notin DOMAIN st.users
                    \/ ~st.users[members[i]].ready
        I == {i \in 1..Len(members) : stops(i)}
    IN IF I = {} THEN "ok"
       ELSE LET i == CHOOSE i \in I : \A j \in I : i <= j IN
            IF members[i] \notin DOMAIN st.users THEN "KeyError" ELSE "GroupNotReady"

\* Variant of the capacity test that lets one player too many in.
FitsOffByOne(size, cap) == size <= cap + 1

\* if size <= game.capacity
Fits(size, cap) == size <= cap

\* for slotid in game_queue: ... break -- the loop stops at the first queue
\* position (in insertion order) that ends it
FirstIndex(I) == CHOOSE i \in I : \A j \in I : i <= j

\* slotid is the uuid4() drawn when no queued slot accepts the group.
join_queue(st, groupid, slotid) ==
    IF groupid \notin DOMAIN st.groups
    THEN QResult(st, "GroupDoesntExist", None, FALSE)
    ELSE IF st.groups[groupid].state # GROUP_CHECK
    THEN QResult(st, "WrongGroupState", None, FALSE)
    ELSE
    LET st1 == [st EXCEPT !.groups[groupid].state = IN_QUEUE]
        group == st.groups[groupid]
        gameid == group.gameid
        m == Len(group.members)
    IN
    IF ReadyCheck(st, group.members) # "ok"
    THEN QResult(st1, ReadyCheck(st, group.members), None, FALSE)
    ELSE IF gameid \notin Games
    THEN QResult(st1, "NotFoundError", None, FALSE)
    ELSE
    LET st2 == IF gameid \in DOMAIN st.queues THEN st1
               ELSE [st1 EXCEPT !.queues = Put(st.queues, gameid, << >>)]
        q == st2.queues[gameid]
        missing(i) == q[i] \notin DOMAIN st.slots \/ ~st.slots[q[i]].live
        fits(i) == ~missing(i) /\ Fits(Len(st.slots[q[i]].players) + m, capacity(gameid))
        I == {i \in 1..Len(q) : missing(i) \/ fits(i)}
    IN
    IF I # {}
    THEN LET i == FirstIndex(I)
             s == q[i]
         IN
         IF missing(i)
         THEN QResult(st2, "KeyError", None, FALSE)
         ELSE QResult([st2 EXCEPT !.slots[s].players = @ \o group.members,
                                  !.slots[s].groups = Append(@, groupid),
                                  !.groups[groupid].slotid = s],
                      "ok",
                      IF Len(st.slots[s].players) + m = capacity(gameid) THEN s ELSE None,
                      FALSE)
    ELSE QResult([st2 EXCEPT !.groups[groupid].slotid = slotid,
                             !.slots = Put(st.slots, slotid,
                                           Slot(group.members, <<groupid>>, gameid)),
                             !.queues[gameid] = Append(@, slotid)],
                 "ok",
                 IF m = capacity(gameid) THEN slotid ELSE None,
                 TRUE)

\* ensure_future(self.start_game(gameid, slotid)): a new task; its party id
\* (the uuid4() of start_game) is its position in tasks.
Task(pc, gameid, slotid, idx, cur) ==
    [pc |-> pc, gameid |-> gameid, slotid |-> slotid, idx |-> idx, cur |-> cur]

JoinQueue(groupid) ==
    LET r == join_queue(Store, groupid, nextSlot) IN
    /\ r.fresh => nextSlot <= MaxSlots
    /\ r.sched # None => Len(tasks) < MaxParties
    /\ SetStore(r.st)
    /\ nextSlot' = IF r.fresh THEN nextSlot + 1 ELSE nextSlot
    /\ tasks' = IF r.sched # None
                THEN Append(tasks, Task("scheduled", groups[groupid].gameid, r.sched, 0, None))
                ELSE tasks
    /\ UNCHANGED <<leaving, nextGroup, otherVars>>

\* ---------------------------------------------------------- start_game
\* for userid in slot.players: self.users[userid].partyid = partyid
\* stops at the first player without a session (KeyError).
RECURSIVE SetPartyEach(_, _, _)
SetPartyEach(us, players, partyid) ==
    IF players = << >>
    THEN [users |-> us, ok |-> TRUE]
    ELSE IF Head(players) \notin DOMAIN us
    THEN [users |-> us, ok |-> FALSE]
    ELSE SetPartyEach([us EXCEPT ![Head(players)].partyid = partyid],
                      Tail(players), partyid)

Finish(partyid, pc) == [tasks EXCEPT ![partyid] = Task(pc, @.gameid, @.slotid, 0, None)]

\* The part of start_game after the loop over slot.groups, to the end;
\* groupid is the loop's last group.
start_game_tail(st, gameid, partyid, slotid, groupid) ==
    LET set == SetPartyEach(st.users, st.slots[slotid].players, partyid)
        st1 == [st EXCEPT !.users = set.users]
    IN
    IF ~set.ok
    THEN Result(st1, "KeyError")
    ELSE IF groupid = None
    THEN Result(st1, "UnboundLocalError")
    ELSE IF st.groups[groupid].gameid \notin DOMAIN st.queues
    THEN Result(st1, "KeyError")
    ELSE IF ~Contains(st.queues[st.groups[groupid].gameid], st.groups[groupid].slotid)
    THEN Result(st1, "ValueError")
    ELSE Result([st1 EXCEPT !.queues[st.groups[groupid].gameid] =
                                ListRemove(@, st.groups[groupid].slotid),
                            !.parties = Put(st.parties, partyid,
                                            Party(gameid, slotid))],
                "ok")

\* First step of the task: up to the first await MSG.send_message.  The
\* event loop starts the tasks in the order ensure_future created them.
StartGameBegin(partyid) ==
    /\ partyid \in DOMAIN tasks
    /\ tasks[partyid].pc = "scheduled"
    /\ \A q \in 1..(partyid - 1) : tasks[q].pc # "scheduled"
    /\ LET slotid == tasks[partyid].slotid IN
       IF slotid \notin SlotKeys
       THEN /\ tasks' = Finish(partyid, "dead")
            /\ UNCHANGED <<users, groups, queues, slots, parties>>
       ELSE IF slots[slotid].groups = << >>
       THEN LET r == start_game_tail(Store, tasks[partyid].gameid, partyid, slotid, None) IN
            /\ SetStore(r.st)
            /\ tasks' = Finish(partyid, "dead")
       ELSE /\ tasks' = [tasks EXCEPT ![partyid].pc = "send",
                                      ![partyid].idx = 1,
                                      ![partyid].cur = slots[slotid].groups[1]]
            /\ UNCHANGED <<users, groups, queues, slots, parties>>
    /\ UNCHANGED <<leaving, nextGroup, nextSlot, otherVars>>

\* Resumption after await MSG.send_message: the body of the loop for the
\* current group, then either the next await or the rest of the task.
StartGameSent(partyid) ==
    /\ partyid \in DOMAIN tasks
    /\ tasks[partyid].pc = "send"
    /\ LET t == tasks[partyid]
           slot == slots[t.slotid]
       IN
       IF t.cur \notin DOMAIN groups
       THEN /\ tasks' = Finish(partyid, "dead")
            /\ UNCHANGED <<users, groups, queues, slots, parties>>
       ELSE LET st1 == [Store EXCEPT !.groups[t.cur].state = PLAYING,
                                     !.groups[t.cur].partyid = partyid]
            IN
            IF t.idx + 1 <= Len(slot.groups)
            THEN /\ SetStore(st1)
                 /\ tasks' = [tasks EXCEPT ![partyid].idx = t.idx + 1,
                                           ![partyid].cur = slot.groups[t.idx + 1]]
            ELSE LET r == start_game_tail(st1, t.gameid, partyid, t.slotid, t.cur) IN
                 /\ SetStore(r.st)
                 /\ tasks' = IF r.res = "ok"
                             THEN Finish(partyid, "running")
                             ELSE Finish(partyid, "dead")
    /\ UNCHANGED <<leaving, nextGroup, nextSlot, otherVars>>

\* ------------------------------------------------------------ end_game
\* for groupid in slot.groups: group = self.groups[groupid]; ...
\* stops at the first group id that is not in self.groups (KeyError).
RECURSIVE ResetEach(_, _)
ResetEach(gs, grps) ==
    IF grps = << >>
    THEN [groups |-> gs, ok |-> TRUE]
    ELSE IF Head(grps) \notin DOMAIN gs
    THEN [groups |-> gs, ok |-> FALSE]
    ELSE ResetEach([gs EXCEPT ![Head(grps)].state = GROUP_CHECK,
                              ![Head(grps)].partyid = None],
                   Tail(grps))

end_game(st, partyid) ==
    IF partyid \notin DOMAIN st.parties
    THEN Result(st, "KeyError")
    ELSE LET slotid == st.parties[partyid].slotid IN
         IF slotid \notin DOMAIN st.slots \/ ~st.slots[slotid].live
         THEN Result(st, "KeyError")
         ELSE LET reset == ResetEach(st.groups, st.slots[slotid].groups)
                  st1 == [st EXCEPT !.groups = reset.groups]
                  clear == SetPartyEach(st.users, st.slots[slotid].players, None)
                  st2 == [st1 EXCEPT !.users = clear.users]
              IN
              IF ~reset.ok
              THEN Result(st1, "KeyError")
              ELSE IF ~clear.ok
              THEN Result(st2, "KeyError")
              ELSE Result([st2 EXCEPT !.slots[slotid].live = FALSE,
                                      !.parties = Del(st.parties, partyid)],
                          "ok")

\* Docker.launch_game: the container of the party exited and the launcher
\* awaits KVS.end_game(partyid); an exception of end_game ends the launcher
\* task ("crashed"), a normal return lets it go on ("over").
EndGame(partyid) ==
    /\ partyid \in DOMAIN tasks
    /\ tasks[partyid].pc = "running"
    /\ LET r == end_game(Store, partyid) IN
       /\ SetStore(r.st)
       /\ tasks' = [tasks EXCEPT ![partyid].pc = IF r.res = "ok" THEN "over" ELSE "crashed"]
    /\ UNCHANGED <<leaving, nextGroup, nextSlot, otherVars>>

PartyIds == 1..MaxParties

Next ==
    \/ \E u \in Users, g \in GameIds : CreateGroup(u, g)
    \/ \E g \in GroupIds, u \in Users : JoinGroup(g, u)
    \/ \E u \in Users : MarkAsReady(u)
    \/ \E u \in Users : MarkAsNotReady(u)
    \/ \E g \in GroupIds : MarkAsNotReadyLeave(g)
    \/ \E u \in Users : LeaveGroup(u)
    \/ \E g \in GroupIds : LeaveQueue(g)
    \/ \E g \in GroupIds : JoinQueue(g)
    \/ \E p \in PartyIds : StartGameBegin(p)
    \/ \E p \in PartyIds : StartGameSent(p)
    \/ \E p \in PartyIds : EndGame(p)

Spec == Init /\ [][Next]_vars

\* ------------------------------------------------- the matchmaker alone
\* The queue, slot and party operations on a fixed population: every player
\* has created a group of their own for GameA and marked themselves ready (the
\* state after create_group and mark_as_ready for each of them), and the
\* groups only enter and leave the queue from then on.
Players == 1..NumPlayers

InitMatch ==
    /\ users = [u \in Players |-> UserKVS(u, None, TRUE)]
    /\ groups = [g \in Players |-> Group(GROUP_CHECK, <<g>>, GameA, None, None)]
    /\ queues = << >>
    /\ slots = << >>
    /\ parties = << >>
    /\ tasks = << >>
    /\ leaving = {}
    /\ nextGroup = NumPlayers + 1
    /\ nextSlot = 1
    /\ redis = RedisInit
    /\ calls = [r \in Calls |-> IdleCall]
    /\ now = 0
    /\ issued = {}
    /\ backend = "InMemory"
    /\ token_revocation_list = << >>
    /\ trl = << >>
    /\ response = NoResponse
    /\ conns = [c \in ConnIds |-> NoConn]
    /\ stop_events = [q \in MsgQueueType |-> << >>]
    /\ stream_tasks = << >>

NextMatch ==
    \/ \E g \in Players : LeaveQueue(g)
    \/ \E g \in Players : JoinQueue(g)
    \/ \E p \in PartyIds : StartGameBegin(p)
    \/ \E p \in PartyIds : StartGameSent(p)
    \/ \E p \in PartyIds : EndGame(p)

SpecMatch == InitMatch /\ [][NextMatch]_vars

\* -------------------------------------------------- Docker.launch_game
\* The launcher task that start_game creates with ensure_future, step by
\* step.  tasks[partyid].pc = "running" is the task before the return of
\* await self.docker.containers.run; "started" is the task after it has
\* published game:started on party:<partyid>, while the container runs;
\* "failed" is the task ended by an exception of containers.run, which
\* launch_game does not catch.

\* containers.run returns: game:started is published
LaunchGameRun(partyid) ==
    /\ partyid \in DOMAIN tasks
    /\ tasks[partyid].pc = "running"
    /\ tasks' = [tasks EXCEPT ![partyid].pc = "started"]
    /\ UNCHANGED <<users, groups, queues, slots, parties>>
    /\ UNCHANGED <<leaving, nextGroup, nextSlot, otherVars>>

\* containers.run raises: the exception ends the task
LaunchGameFail(partyid) ==
    /\ partyid \in DOMAIN tasks
    /\ tasks[partyid].pc = "running"
    /\ tasks' = [tasks EXCEPT ![partyid].pc = "failed"]
    /\ UNCHANGED <<users, groups, queues, slots, parties>>
    /\ UNCHANGED <<leaving, nextGroup, nextSlot, otherVars>>

\* The container exits: await KVS.end_game(partyid), and after its return
\* game:over is published on party:<partyid> ("over"); an exception of
\* end_game ends the task before the publication ("crashed").
ContainerExit(partyid) ==
    /\ partyid \in DOMAIN tasks
    /\ tasks[partyid].pc = "started"
    /\ LET r == end_game(Store, partyid) IN
       /\ SetStore(r.st)
       /\ tasks' = [tasks EXCEPT ![partyid].pc = IF r.res = "ok" THEN "over" ELSE "crashed"]
    /\ UNCHANGED <<leaving, nextGroup, nextSlot, otherVars>>

\* what the launcher of the party has published on party:<partyid>
PublishedStarted(partyid) ==
    partyid \in DOMAIN tasks /\ tasks[partyid].pc \in {"started", "over", "crashed"}

PublishedOver(partyid) ==
    partyid \in DOMAIN tasks /\ tasks[partyid].pc = "over"

NextLaunch ==
    \/ \E g \in Players : LeaveQueue(g)
    \/ \E g \in Players : JoinQueue(g)
    \/ \E p \in PartyIds : StartGameBegin(p)
    \/ \E p \in PartyIds : StartGameSent(p)
    \/ \E p \in PartyIds : LaunchGameRun(p)
    \/ \E p \in PartyIds : LaunchGameFail(p)
    \/ \E p \in PartyIds : ContainerExit(p)

SpecLaunch == InitMatch /\ [][NextLaunch]_vars

\* The event loop runs every task that can go on, the docker daemon answers
\* and the container of a game exits.
SpecLaunchFair ==
    /\ SpecLaunch
    /\ \A p \in PartyIds :
          /\ WF_vars(StartGameBegin(p))
          /\ WF_vars(StartGameSent(p))
          /\ WF_vars(LaunchGameRun(p) \/ LaunchGameFail(p))
          /\ WF_vars(ContainerExit(p))

\* The same operations for GameC, whose slots take a third group: a group
\* can enter a slot that already holds players and leave it short of
\* capacity.
PackPlayers == 1..NumPackPlayers

InitPack ==
    /\ users = [u \in PackPlayers |-> UserKVS(u, None, TRUE)]
    /\ groups = [g \in PackPlayers |-> Group(GROUP_CHECK, <<g>>, GameC, None, None)]
    /\ queues = << >>
    /\ slots = << >>
    /\ parties = << >>
    /\ tasks = << >>
    /\ leaving = {}
    /\ nextGroup = NumPackPlayers + 1
    /\ nextSlot = 1
    /\ redis = RedisInit
    /\ calls = [r \in Calls |-> IdleCall]
    /\ now = 0
    /\ issued = {}
    /\ backend = "InMemory"
    /\ token_revocation_list = << >>
    /\ trl = << >>
    /\ response = NoResponse
    /\ conns = [c \in ConnIds |-> NoConn]
    /\ stop_events = [q \in MsgQueueType |-> << >>]
    /\ stream_tasks = << >>

SpecPack == InitPack /\ [][NextMatch]_vars

\* ======================================================================
\* Properties
\* ======================================================================
GroupsOf(u) == {g \in DOMAIN groups : Contains(groups[g].members, u)}

NoDuplicates(s) == \A i, j \in 1..Len(s) : s[i] = s[j] => i = j

\* C1: in every reachable state each user id is in the members list of at
\* most one group, and at most once in that list.
C1_UserInAtMostOneGroup ==
    /\ \A u \in Users : Cardinality(GroupsOf(u)) <= 1
    /\ \A g \in DOMAIN groups : NoDuplicates(groups[g].members)

\* every group id has been drawn, every user is in exactly one group and one
\* group holds two users (a user has left a group and entered another)
C1_Witness ==
    /\ \A u \in Users : Cardinality(GroupsOf(u)) = 1
    /\ nextGroup > MaxGroups
    /\ \E g \in DOMAIN groups : Len(groups[g].members) = 2

\* C2: a user has a session if and only if the user is a member of some group,
\* and the session's groupid names an existing group whose members contain
\* that user.
C2_SessionIffMember ==
    \A u \in Users :
        /\ u \in DOMAIN users <=> GroupsOf(u) # {}
        /\ u \in DOMAIN users =>
              /\ users[u].groupid \in DOMAIN groups
              /\ Contains(groups[users[u].groupid].members, u)

\* a user left a group (their session is gone) while the group lives on
\* with the other member
C2_Witness ==
    \E u \in Users, g \in DOMAIN groups :
        /\ u \notin DOMAIN users
        /\ nextGroup > g
        /\ Len(groups[g].members) = 1
        /\ groups[g].members[1] # u
        /\ groups[g].state = IN_QUEUE

\* C3: for every slot of a game, the number of players in the slot is at
\* most the capacity of that game.
C3_SlotWithinCapacity ==
    \A s \in SlotKeys : Len(slots[s].players) <= capacity(slots[s].gameid)

\* a slot that received a second group and is exactly at capacity
C3_Witness ==
    \E s \in SlotKeys :
        /\ Len(slots[s].groups) = 2
        /\ Len(slots[s].players) = capacity(slots[s].gameid)

\* ---------------------------------------------------------------------
ReadyGroup(g) ==
    /\ g \in DOMAIN groups
    /\ groups[g].state = GROUP_CHECK
    /\ groups[g].gameid \in Games
    /\ \A i \in 1..Len(groups[g].members) :
          /\ groups[g].members[i] \in DOMAIN users
          /\ users[groups[g].members[i]].ready

QueueOf(gameid) == IF gameid \in DOMAIN queues THEN queues[gameid] ELSE << >>

\* what C4 asks of a joinQueue(g) step
PackedFirstFit(g) ==
    LET gameid == groups[g].gameid
        members == groups[g].members
        q == QueueOf(gameid)
        room(i) == /\ q[i] \in SlotKeys
                   /\ Len(slots[q[i]].players) + Len(members) <= capacity(gameid)
        I == {i \in 1..Len(q) : room(i)}
    IN
    /\ g \in DOMAIN groups'
    /\ groups'[g].state = IN_QUEUE
    /\ IF I # {}
       THEN LET s == q[CHOOSE i \in I : \A j \in I : i <= j] IN
            /\ groups'[g].slotid = s
            /\ DOMAIN slots' = DOMAIN slots
            /\ slots'[s].players = slots[s].players \o members
            /\ slots'[s].groups = Append(slots[s].groups, g)
            /\ slots'[s].live
            /\ \A t \in DOMAIN slots \ {s} : slots'[t] = slots[t]
       ELSE /\ \E s \in DOMAIN slots' \ DOMAIN slots :
                 /\ DOMAIN slots' = DOMAIN slots \cup {s}
                 /\ groups'[g].slotid = s
                 /\ slots'[s].players = members
                 /\ slots'[s].groups = <<g>>
                 /\ slots'[s].live
                 /\ queues'[gameid] = Append(q, s)
            /\ \A t \in DOMAIN slots : slots'[t] = slots[t]

\* C4: joinQueue(g) on a ready group puts g into the first slot of the queue,
\* in insertion order, that has room for all its members; it opens a fresh
\* slot at the tail of the queue, holding exactly g's members, only when no
\* queued slot has room; every other slot is left as it was.
C4_FirstFitPacking ==
    [][\A g \in DOMAIN groups : (ReadyGroup(g) /\ JoinQueue(g)) => PackedFirstFit(g)]_vars

\* C5: no slot whose player count equals the capacity of its game is in a
\* queue (joinQueue takes a slot it fills out of the queue before returning).
C5_NoFullSlotInQueue ==
    \A gameid \in DOMAIN queues : \A i \in 1..Len(queues[gameid]) :
        queues[gameid][i] \in SlotKeys =>
            Len(slots[queues[gameid][i]].players) # capacity(gameid)

NotReadyGroup(g) ==
    /\ g \in DOMAIN groups
    /\ groups[g].state = GROUP_CHECK
    /\ \E i \in 1..Len(groups[g].members) :
          /\ groups[g].members[i] \in DOMAIN users
          /\ ~users[groups[g].members[i]].ready

\* C6: joinQueue(g) on a group in GROUP_CHECK with a member that is not ready
\* fails with GroupNotReady and leaves the whole store unchanged.
C6_NotReadyJoinQueueKeepsStore ==
    [][\A g \in DOMAIN groups : (NotReadyGroup(g) /\ JoinQueue(g)) =>
          /\ join_queue(Store, g, nextSlot).res = "GroupNotReady"
          /\ UNCHANGED <<users, groups, queues, slots, parties>>]_vars

\* C7: a group whose state is IN_QUEUE has a slot id, and that slot id is in
\* the queue of the group's game.
C7_InQueueHasQueuedSlot ==
    \A g \in DOMAIN groups :
        groups[g].state = IN_QUEUE =>
            /\ groups[g].slotid # None
            /\ Contains(QueueOf(groups[g].gameid), groups[g].slotid)

\* C8: g.slotid = s if and only if s exists and g is in s.groups, and then
\* every member of g is in s.players; no group keeps the id of a deleted
\* slot and no slot lists a deleted group.
C8_SlotLinksAgree ==
    /\ \A g \in DOMAIN groups : \A s \in DOMAIN slots :
          groups[g].slotid = s <=> (s \in SlotKeys /\ Contains(slots[s].groups, g))
    /\ \A g \in DOMAIN groups :
          groups[g].slotid # None =>
              /\ groups[g].slotid \in SlotKeys
              /\ Range(groups[g].members) \subseteq Range(slots[groups[g].slotid].players)
    /\ \A s \in SlotKeys : Range(slots[s].groups) \subseteq DOMAIN groups

\* C9: in every state, the states between the suspension points of
\* start_game included, a group whose state is PLAYING has a party id and
\* every one of its members has that party id in their session.
C9_PlayingMembersHaveParty ==
    \A g \in DOMAIN groups :
        groups[g].state = PLAYING =>
            /\ groups[g].partyid # None
            /\ \A i \in 1..Len(groups[g].members) :
                  /\ groups[g].members[i] \in DOMAIN users
                  /\ users[groups[g].members[i]].partyid = groups[g].partyid

\* end_game(p) returned normally in this step
EndGameCompleted(p) ==
    /\ p \in DOMAIN tasks
    /\ tasks[p].pc = "running"
    /\ EndGame(p)
    /\ tasks'[p].pc = "over"

\* C10: after endGame(p) completes the party p is absent, its slot is
\* deleted, no group and no session has partyid = p, and every group that
\* composed the party is in GROUP_CHECK.
C10_EndGameLeavesNoTrace ==
    [][\A p \in DOMAIN tasks : EndGameCompleted(p) =>
          /\ p \notin DOMAIN parties'
          /\ parties[p].slotid \notin {s \in DOMAIN slots' : slots'[s].live}
          /\ \A g \in DOMAIN groups' : groups'[g].partyid # p
          /\ \A u \in DOMAIN users' : users'[u].partyid # p
          /\ \A g \in Range(slots[parties[p].slotid].groups) :
                g \in DOMAIN groups' /\ groups'[g].state = GROUP_CHECK]_vars

\* u is a member of a group that waits in a slot of its game's queue
QueuedMember(u) ==
    /\ u \in DOMAIN users
    /\ users[u].groupid \in DOMAIN groups
    /\ groups[users[u].groupid].state = IN_QUEUE
    /\ groups[users[u].groupid].slotid \in SlotKeys
    /\ Contains(slots[groups[users[u].groupid].slotid].groups, users[u].groupid)

\* C11: leaveGroup(u) when u's group is IN_QUEUE performs leaveQueue first:
\* afterwards u is in no slot's players, the group, if it still has members,
\* is in GROUP_CHECK without a slot, and the slot it occupied no longer lists
\* the group (and is deleted and out of the queue if it became empty).
C11_LeaveGroupLeavesQueue ==
    [][\A u \in DOMAIN users : (QueuedMember(u) /\ LeaveGroup(u)) =>
          LET g == users[u].groupid
              s == groups[g].slotid
          IN
          /\ \A t \in DOMAIN slots' : slots'[t].live => ~Contains(slots'[t].players, u)
          /\ g \in DOMAIN groups' =>
                groups'[g].state = GROUP_CHECK /\ groups'[g].slotid = None
          /\ slots'[s].live => /\ ~Contains(slots'[s].groups, g)
                               /\ slots'[s].groups # << >>
          /\ ~slots'[s].live => ~Contains(QueueOf(groups[g].gameid)', s)]_vars

\* joinQueue(g) on the ready group g succeeds without bringing a slot to
\* capacity
JoinsWithoutFilling(g) ==
    /\ ReadyGroup(g)
    /\ join_queue(Store, g, nextSlot).res = "ok"
    /\ join_queue(Store, g, nextSlot).sched = None

LiveSlots(st) == {s \in DOMAIN st.slots : st.slots[s].live}

QueueIn(st, gameid) == IF gameid \in DOMAIN st.queues THEN st.queues[gameid] ELSE << >>

\* the store after is the store before, but for g's cleared slot id
Restored(after, before, g) ==
    /\ after.users = before.users
    /\ after.parties = before.parties
    /\ DOMAIN after.groups = DOMAIN before.groups
    /\ \A h \in DOMAIN before.groups \ {g} : after.groups[h] = before.groups[h]
    /\ after.groups[g] = [before.groups[g] EXCEPT !.state = GROUP_CHECK, !.slotid = None]
    /\ LiveSlots(after) = LiveSlots(before)
    /\ \A s \in LiveSlots(before) :
          /\ after.slots[s].players = before.slots[s].players
          /\ after.slots[s].groups = before.slots[s].groups
    /\ \A gameid \in Games : QueueIn(after, gameid) = QueueIn(before, gameid)

OutOfQueue(g, s) ==
    /\ g \in DOMAIN groups'
    /\ groups'[g].state = GROUP_CHECK
    /\ groups'[g].slotid = None
    /\ \A t \in DOMAIN slots' : slots'[t].live =>
          /\ ~Contains(slots'[t].groups, g)
          /\ \A i \in 1..Len(groups'[g].members) :
                ~Contains(slots'[t].players, groups'[g].members[i])
    /\ s \in DOMAIN slots' =>
          \/ ~slots'[s].live /\ ~Contains(QueueIn(Store', groups'[g].gameid), s)
          \/ slots'[s].live /\ slots'[s].groups # << >>

\* C13: markNotReady(u) when u's group is IN_QUEUE takes the group out of
\* the queue as leaveQueue does (the group is in GROUP_CHECK, its members are
\* out of the slot, an emptied slot is dropped from the queue) and clears the
\* ready flag of u only: no other session changes.
C13_MarkNotReadyLeavesQueue ==
    [][/\ \A u \in DOMAIN users :
             (groups[users[u].groupid].state = IN_QUEUE /\ MarkAsNotReady(u)) =>
                 /\ users' = [users EXCEPT ![u].ready = FALSE]
                 /\ users[u].groupid \in leaving'
       /\ \A g \in leaving :
             MarkAsNotReadyLeave(g) =>
                 /\ users' = users
                 /\ OutOfQueue(g, IF g \in DOMAIN groups THEN groups[g].slotid ELSE None)]_vars

NoSession(u) == u \notin DOMAIN users \/ users[u].groupid = None

\* C14: joinGroup(gid, u) succeeds only when the group is in GROUP_CHECK;
\* on a group that is IN_QUEUE or PLAYING it fails with WrongGroupState and
\* changes nothing: u gets no session, the members of the group and the
\* players of its slot stay as they were.
C14_JoinGroupOnlyInGroupCheck ==
    \A g \in DOMAIN groups : \A u \in Users :
        /\ join_group(Store, g, u).res = "ok" => groups[g].state = GROUP_CHECK
        /\ (NoSession(u) /\ groups[g].state \in {IN_QUEUE, PLAYING}) =>
              /\ join_group(Store, g, u).res = "WrongGroupState"
              /\ join_group(Store, g, u).st = Store

\* a user without a session can ask to join a group that is playing
C14_Witness ==
    \E u \in Users :
        /\ NoSession(u)
        /\ \E g \in DOMAIN groups : groups[g].state = PLAYING /\ groups[g].slotid \in SlotKeys

\* C15: every existing group has between 1 and capacity(game) members:
\* joinGroup on a group that already has capacity members fails with
\* GroupIsFull and adds nobody, and no group is kept without members.
C15_GroupSizeWithinBounds ==
    \A g \in DOMAIN groups :
        /\ Len(groups[g].members) >= 1
        /\ groups[g].gameid \in Games =>
              /\ Len(groups[g].members) <= capacity(groups[g].gameid)
              /\ \A u \in Users :
                    (/\ NoSession(u)
                     /\ groups[g].state = GROUP_CHECK
                     /\ Len(groups[g].members) = capacity(groups[g].gameid)) =>
                        /\ join_group(Store, g, u).res = "GroupIsFull"
                        /\ join_group(Store, g, u).st = Store

\* a full group in GROUP_CHECK that a user without a session can ask to
\* join, after a group lost its last member and was removed
C15_Witness ==
    /\ \E g \in DOMAIN groups : \E u \in Users :
          /\ NoSession(u)
          /\ groups[g].state = GROUP_CHECK
          /\ groups[g].gameid \in Games
          /\ Len(groups[g].members) = capacity(groups[g].gameid)
    /\ \E g \in 1..(nextGroup - 1) : g \notin DOMAIN groups

C17_UnknownGameRejected ==
    [][\A u \in Users :
          (NoSession(u) /\ CreateGroup(u, UnknownGame)) =>
              /\ create_group(Store, u, UnknownGame, nextGroup).res = "GameDoesntExist"
              /\ UNCHANGED <<users, groups>>]_vars

\* leaveGroup is refused, without effect, to a member of a playing group
\* (WrongGroupState) and to a user without a group (PlayerNotInGroup)
LeaveGroupRejected ==
    \A u \in Users :
        /\ NoSession(u) =>
              /\ leave_group(Store, u).res = "PlayerNotInGroup"
              /\ leave_group(Store, u).st = Store
        /\ (/\ ~NoSession(u)
            /\ users[u].groupid \in DOMAIN groups
            /\ groups[users[u].groupid].state = PLAYING) =>
              /\ leave_group(Store, u).res = "WrongGroupState"
              /\ leave_group(Store, u).st = Store

\* a group that is PLAYING before and after a step keeps its members, and
\* its slot keeps its players
PlayingGroupFrozen(g) ==
    (/\ groups[g].state = PLAYING
     /\ g \in DOMAIN groups'
     /\ groups'[g].state = PLAYING) =>
        /\ groups'[g].members = groups[g].members
        /\ groups[g].slotid \in SlotKeys =>
              slots'[groups[g].slotid].players = slots[groups[g].slotid].players

\* C18: leaveGroup(u) while u's group is PLAYING fails with WrongGroupState
\* and changes nothing, so the members of a group and the players of its
\* slot stay the same from the moment the group becomes PLAYING until
\* endGame; leaveGroup(u) for a user without a group fails with
\* PlayerNotInGroup.
C18_PlayingGroupKeepsMembers ==
    [][LeaveGroupRejected /\ \A g \in DOMAIN groups : PlayingGroupFrozen(g)]_vars

\* createGroup(u, g) then leaveGroup(u) gives the store back, and a
\* leaveGroup that succeeds removes the group if and only if the leaving
\* user was its last member
LeaveGroupRemovesEmptied ==
    \A u \in Users :
        /\ NoSession(u) =>
              \A gameid \in Games :
                  LET made == create_group(Store, u, gameid, nextGroup)
                      left == leave_group(made.st, u)
                  IN
                  /\ made.res = "ok" /\ left.res = "ok"
                  /\ u \notin DOMAIN left.st.users
                  /\ get_group(left.st, nextGroup) = "GroupDoesntExist"
                  /\ left.st = Store
        /\ (~NoSession(u) /\ leave_group(Store, u).res = "ok") =>
              LET g == users[u].groupid
                  left == leave_group(Store, u)
              IN
              /\ get_group(left.st, g) = "GroupDoesntExist" <=> groups[g].members = <<u>>
              /\ g \in DOMAIN left.st.groups =>
                    left.st.groups[g].members = ListRemove(groups[g].members, u)

\* C19: createGroup(u, g) followed by leaveGroup(u) leaves neither the group
\* nor the session of u; a group is removed exactly when its last member
\* leaves (no other step removes a group), and getGroup on it then fails
\* with GroupDoesntExist.
C19_GroupRemovedWithLastMember ==
    /\ []LeaveGroupRemovesEmptied
    /\ [][\A g \in DOMAIN groups :
             g \notin DOMAIN groups' =>
                 \E u \in Users : /\ groups[g].members = <<u>>
                                  /\ LeaveGroup(u)
                                  /\ get_group(Store', g) = "GroupDoesntExist"]_vars

\* a group has been removed with its last member, and there is a group of
\* two members, that one leaving member will not end
C19_Witness ==
    /\ \E g \in 1..(nextGroup - 1) : g \notin DOMAIN groups
    /\ \E g \in DOMAIN groups : Len(groups[g].members) = 2

InGroupCheck(u) ==
    /\ ~NoSession(u)
    /\ users[u].groupid \in DOMAIN groups
    /\ groups[users[u].groupid].state = GROUP_CHECK

\* The store after mark_as_ready(u) followed by mark_as_not_ready(u).
ReadyThenNotReady(u) == mark_as_not_ready(mark_as_ready(Store, u).st, u)

\* C21 as stated: for a user in a group in GROUP_CHECK, markReady(u) followed
\* by markNotReady(u) returns u's readiness to its original value and
\* changes nothing else in the store.
C21_RoundTripRestoresReadiness ==
    \A u \in Users : InGroupCheck(u) => ReadyThenNotReady(u).st = Store

\* C21 amended: for a user in a group in GROUP_CHECK, both calls succeed,
\* no leave_queue is awaited, and markReady(u) followed by markNotReady(u)
\* leaves u not ready and changes nothing else in the store; this is the
\* original store exactly when u was not ready before.
C21_RoundTripClearsReadiness ==
    \A u \in Users : InGroupCheck(u) =>
        /\ mark_as_ready(Store, u).res = "ok"
        /\ ReadyThenNotReady(u).res = "ok"
        /\ ReadyThenNotReady(u).wait = None
        /\ ReadyThenNotReady(u).st = [Store EXCEPT !.users[u].ready = FALSE]
        /\ (ReadyThenNotReady(u).st = Store) <=> ~users[u].ready

\* a ready user and a user that is not ready, each in a group in GROUP_CHECK
C21_Witness ==
    \E u, v \in Users :
        /\ InGroupCheck(u) /\ users[u].ready
        /\ InGroupCheck(v) /\ ~users[v].ready

\* ------------------------------------------------------------------ C22
\* a ready one-member group of the capacity-1 game, in GROUP_CHECK
ReadySingleton(g) ==
    /\ ReadyGroup(g)
    /\ capacity(groups[g].gameid) = 1
    /\ Len(groups[g].members) = 1

\* C22: for a game of capacity 1, joinQueue of a ready one-member group
\* launches at once: the group gets a slot of its own, startGame is
\* scheduled for that slot, and the slot is not left in the queue of the
\* game where another group could observe it.
C22_CapacityOneLaunchesAtOnce ==
    [][\A g \in GroupIds :
          (ReadySingleton(g) /\ JoinQueue(g)) =>
              LET s == groups'[g].slotid IN
              /\ s \in DOMAIN slots' /\ slots'[s].live
              /\ slots'[s].groups = <<g>>
              /\ slots'[s].players = groups[g].members
              /\ Len(tasks') = Len(tasks) + 1
              /\ tasks'[Len(tasks')].slotid = s
              /\ tasks'[Len(tasks')].pc = "scheduled"
              /\ ~Contains(QueueIn(Store', groups[g].gameid), s)]_vars

\* ------------------------------------------------------------------ C23
\* g is queued and is the only group of the slot s
SoleGroupOf(g, s) ==
    /\ g \in DOMAIN groups
    /\ groups[g].state = IN_QUEUE
    /\ groups[g].slotid = s
    /\ s \in SlotKeys
    /\ slots[s].groups = <<g>>

\* after the step the slot s is deleted and the queue of the game no
\* longer lists it
Dropped(s, gameid) ==
    /\ ~slots'[s].live
    /\ ~Contains(QueueIn(Store', gameid), s)

NoEmptySlot == \A s \in SlotKeys : slots[s].groups # << >> /\ slots[s].players # << >>

LastGroupLeavingDropsSlot ==
    \A g \in GroupIds : \A s \in DOMAIN slots :
        SoleGroupOf(g, s) =>
            /\ LeaveQueue(g) => Dropped(s, groups[g].gameid)
            /\ MarkAsNotReadyLeave(g) => Dropped(s, groups[g].gameid)
            /\ \A u \in Range(groups[g].members) :
                  LeaveGroup(u) => Dropped(s, groups[g].gameid)

\* C23: every existing slot has at least one group and at least one player;
\* a slot whose last group leaves, by leaveQueue, markNotReady or leaveGroup,
\* is deleted and removed from its queue in the same operation.
C23_NoZeroMemberSlot == []NoEmptySlot /\ [][LastGroupLeavingDropsSlot]_vars

\* ------------------------------------------------------------------ C24
\* the step takes the group g from state a to state b by an operation that
\* the lifecycle names for that edge
LifecycleEdge(g, a, b) ==
    \/ /\ a = GROUP_CHECK /\ b = IN_QUEUE
       /\ JoinQueue(g)
    \/ /\ a = IN_QUEUE /\ b = GROUP_CHECK
       /\ \/ LeaveQueue(g)
          \/ MarkAsNotReadyLeave(g)
          \/ \E u \in Range(groups[g].members) : LeaveGroup(u)
    \/ /\ a = IN_QUEUE /\ b = PLAYING
       /\ \E p \in PartyIds : StartGameSent(p)
    \/ /\ a = PLAYING /\ b = GROUP_CHECK
       /\ \E p \in PartyIds : EndGame(p)

NoPartyCheck == \A g \in DOMAIN groups : groups[g].state # PARTY_CHECK

\* C24: the state of a group only changes along GROUP_CHECK -> IN_QUEUE
\* (joinQueue), IN_QUEUE -> GROUP_CHECK (leaveQueue, markNotReady,
\* leaveGroup), IN_QUEUE -> PLAYING (startGame) and PLAYING -> GROUP_CHECK
\* (endGame); a playing group is not removed; PARTY_CHECK is never reached.
C24_LifecycleEdgesOnly ==
    /\ []NoPartyCheck
    /\ [][\A g \in DOMAIN groups :
             /\ groups[g].state = PLAYING => g \in DOMAIN groups'
             /\ (g \in DOMAIN groups' /\ groups'[g].state # groups[g].state) =>
                   LifecycleEdge(g, groups[g].state, groups'[g].state)]_vars

\* ------------------------------------------------------------------ C25
\* join_group run from its first command to its return with no other call
\* in between
RECURSIVE RunJoinGroup(_, _)
RunJoinGroup(rd, c) ==
    IF c.pc = "done" THEN rd
    ELSE RunJoinGroup(Redis_join_group(rd, c).rd, Redis_join_group(rd, c).c)

Started == {r \in Calls : calls[r].pc # "idle"}

Quiescent == \A r \in Calls : calls[r].pc \in {"idle", "done"}

\* the orders in which the calls made so far can be run one after another
Orders == {o \in [1..Cardinality(Started) -> Started] :
              \A i, j \in DOMAIN o : o[i] = o[j] => i = j}

RECURSIVE RunInOrder(_, _, _)
RunInOrder(rd, o, i) ==
    IF i > Len(o) THEN rd
    ELSE RunInOrder(RunJoinGroup(rd, Call("get_user_groupid", calls[o[i]].groupid,
                                          calls[o[i]].userid, "none")),
                    o, i + 1)

GroupsListing(u) == {g \in RedisGroupIds : u \in redis.group_members[g]}

\* C25: matchmaking operations are atomic.  For joinGroup calls run as
\* concurrent tasks interleaved at every suspension point: once they have
\* all returned, the store is one that running the same calls one after
\* another produces, no group is above the capacity of its game, and no user
\* is a member of two groups.
C25_ConcurrentJoinGroupSerializable ==
    Quiescent =>
        /\ \E o \in Orders : redis = RunInOrder(RedisInit, o, 1)
        /\ \A g \in RedisOwners :
              Cardinality(redis.group_members[g]) <= capacity(redis.group_gameid[g])
        /\ \A u \in RedisUsers : Cardinality(GroupsListing(u)) <= 1

\* ------------------------------------------------------------------ C26
\* jwtlib.decode can accept the token t at the given time
Unexpired(t, time) == TRUE \in DecodeOutcomes(t, time)

\* what the gate answers to the token t, correctly signed and unexpired,
\* on every route
GateRejectsRevoked ==
    \A t \in LoginTokens : \A allowed \in Endpoints :
        Unexpired(t, now) =>
            /\ is_token_revoked(t.jti) =>
                  authenticate(Bearer("Bearer:", t), allowed, TRUE)
                      = Response(403, "Revoked token", FALSE)
            /\ ~is_token_revoked(t.jti) =>
                  authenticate(Bearer("Bearer:", t), allowed, TRUE).error
                      # "Revoked token"

\* a logout that went through has revoked the token of the request
RevokeTakesEffect ==
    \A t \in LoginTokens :
        (Logout(Bearer("Bearer:", t)) /\ response'.status = 204) =>
            is_token_revoked(t.jti)'

\* a revoked token stays revoked for as long as it has not expired
RevocationLasts ==
    \A t \in LoginTokens :
        (is_token_revoked(t.jti) /\ Unexpired(t, now')) => is_token_revoked(t.jti)'

\* only the logout of a token revokes it
RevokedOnlyByRevoke ==
    \A t \in LoginTokens :
        (~is_token_revoked(t.jti) /\ is_token_revoked(t.jti)') =>
            Logout(Bearer("Bearer:", t))

\* C26: once revokeToken has been performed for a token id, every later
\* request bearing that token, unexpired and correctly signed, is answered
\* 403 "Revoked token" on every route and for every kind of client, and the
\* handler is not run; a token that was never revoked is not answered
\* "Revoked token".
C26_RevokedTokenRejected ==
    /\ []GateRejectsRevoked
    /\ [][RevokeTakesEffect /\ RevocationLasts /\ RevokedOnlyByRevoke]_vars

\* ------------------------------------------------------------------ C27
\* the one outcome that the precedence missing > wrong scheme > invalid >
\* revoked > restricted > success gives a request
Precedence(bearer, allowed, decoded) ==
    IF bearer = NoHeader \/ bearer.scheme = ""
    THEN Response(401, "Authorization header required", FALSE)
    ELSE IF bearer.scheme # "Bearer:"
    THEN Response(401, "Bearer authorization type required", FALSE)
    ELSE IF ~decoded
    THEN Response(403, "Invalid token", FALSE)
    ELSE IF is_token_revoked(bearer.token.jti)
    THEN Response(403, "Revoked token", FALSE)
    ELSE IF bearer.token.typ \notin allowed
    THEN Response(403, "Restricted access", FALSE)
    ELSE Response(200, "", TRUE)

\* C27: the token gate gives every request exactly one outcome, with the
\* precedence missing (401) > wrong scheme (401) > invalid (403) > revoked
\* (403) > restricted (403) > success; the handler runs only when all five
\* checks pass.
C27_GatePrecedence ==
    \A bearer \in Headers : \A allowed \in Endpoints :
        \A decoded \in (IF bearer \in {NoHeader, [scheme |-> ""]} THEN {FALSE}
                        ELSE DecodeOutcomes(bearer.token, now)) :
            authenticate(bearer, allowed, decoded) = Precedence(bearer, allowed, decoded)

\* ------------------------------------------------------------------ C28
\* the "exp" of the token made with the id jti
ExpOf(jti) == (CHOOSE t \in LoginTokens : t.jti = jti).exp

\* the revocation set of the backend in use, as (token id, expiry) entries
RevocationSet ==
    IF backend = "InMemory"
    THEN {[jti |-> j, exp |-> ExpOf(j)] : j \in Range(token_revocation_list)}
    ELSE {[jti |-> j, exp |-> trl[j]] : j \in DOMAIN trl}

\* C28: every revokeToken call first removes from the revocation set all
\* entries whose expiry is earlier than now: after it the set holds no
\* expired entry, and no entry whose expiry is in the future was removed;
\* on both session-store backends.
C28_RevokePrunesExpired ==
    [][\A bearer \in Headers :
          (Logout(bearer) /\ response'.status = 204) =>
              /\ \A e \in RevocationSet' : ~(e.exp < now)
              /\ \A e \in RevocationSet : e.exp > now => e \in RevocationSet']_vars

\* ----------------------------------------------------------------- C29
\* an open stream of user u on queue q
OpenStream(c, u, q) ==
    conns[c].pc = "waiting" /\ conns[c].userid = u /\ conns[c].queue = q

\* What a kick of u from q does: every open stream of u on q has its stop
\* event set, the stop event of no other connection changes, and the
\* session store is the same.
KickEffect(u, q) ==
    /\ \A c \in ConnIds : OpenStream(c, u, q) => conns'[c].stop
    /\ \A c \in ConnIds : ~OpenStream(c, u, q) => conns'[c].stop = conns[c].stop
    /\ storeVars' = storeVars
    /\ get_user(Store, u) = get_user(Store', u)

\* C29: a kick of user U from queue kind K sets the stop event of every
\* open stream of U of kind K and of no other user or kind, it leaves the
\* session store as it was (get_user(U) returns the same), and every stream
\* whose stop event is set comes to its end.
C29_KickStopsStreamsOfUserAndKind ==
    /\ [][\A u \in Users, q \in MsgQueueType : Kick(u, q) => KickEffect(u, q)]_vars
    /\ \A c \in ConnIds :
           (conns[c].pc = "waiting" /\ conns[c].stop) ~> (conns[c].pc = "ended")

\* A stream that only a kick can have stopped (its transport is open and
\* its tasks run), next to a stream of the same user on another queue that
\* goes on.
C29_Witness ==
    \E c, d \in ConnIds :
        /\ conns[c].pc = "waiting" /\ conns[c].stop
        /\ ~conns[c].closing /\ conns[c].sf = "receiving" /\ conns[c].hb = "running"
        /\ conns[d].pc = "waiting" /\ ~conns[d].stop
        /\ conns[d].userid = conns[c].userid /\ conns[d].queue # conns[c].queue

\* ----------------------------------------------------------------- C30
Ended(c) == conns[c].pc = "ended"

\* both tasks of an ended stream are over
TasksCancelled(c) ==
    /\ conns[c].sf \in {"cancelled", "done"}
    /\ conns[c].hb \in {"cancelled", "done"}
    /\ ~Contains(stream_tasks, <<c, "sf">>)
    /\ ~Contains(stream_tasks, <<c, "hb">>)

\* the SUB socket of an ended stream is closed, or was never opened
SubscriptionReleased(c) == conns[c].sub # "open"

\* the stop event of an ended stream is in no list of the index
EventRemoved(c) ==
    \A q \in MsgQueueType : \A u \in DOMAIN stop_events[q] :
        ~Contains(stop_events[q][u], c)

\* user u has had streams on queue q, and all of them have ended
AllEnded(u, q) ==
    /\ \E c \in ConnIds : Ended(c) /\ conns[c].userid = u /\ conns[c].queue = q
    /\ \A c \in ConnIds : conns[c].userid = u /\ conns[c].queue = q => Ended(c)

NoEntry(u, q) == u \notin DOMAIN stop_events[q]

\* C30: when a stream has ended, its forwarder and heartbeat tasks are both
\* cancelled, its subscription is released and its stop event is out of the
\* index; once all the streams of a user on a queue have ended, the index
\* has no entry for that queue and user and none of their subscriptions is
\* open.
C30_EndedStreamLeavesNothing ==
    /\ \A c \in ConnIds :
           Ended(c) => TasksCancelled(c) /\ SubscriptionReleased(c) /\ EventRemoved(c)
    /\ \A u \in Users, q \in MsgQueueType :
           AllEnded(u, q) =>
               /\ NoEntry(u, q)
               /\ \A c \in ConnIds :
                      conns[c].userid = u /\ conns[c].queue = q => SubscriptionReleased(c)

\* ----------------------------------------------------------------- C31
\* the stop event of connection c is in the index
Registered(c) ==
    \E q \in MsgQueueType : \E u \in DOMAIN stop_events[q] :
        Contains(stop_events[q][u], c)

\* what close_all_connections leaves behind: a stream that still waits,
\* with its stop event set and both of its tasks cancelled or finished
ShutDown(c) ==
    /\ conns[c].pc = "waiting" /\ conns[c].stop
    /\ conns[c].sf \in {"cancelled", "done"}
    /\ conns[c].hb \in {"cancelled", "done"}

\* C31: on shutdown every stop event registered in the index, of every
\* queue and user, is set; every open stream is registered; and a stream
\* that was shut down comes to the end of its clean-up, so that none stays
\* open.
C31_ShutdownStopsEveryStream ==
    /\ [][CloseAll => \A c \in ConnIds : Registered(c) => conns'[c].stop]_vars
    /\ [](\A c \in ConnIds : conns[c].pc = "waiting" => Registered(c))
    /\ \A c \in ConnIds : ShutDown(c) ~> Ended(c)

\* Two streams on different queues, one of them the party queue, both
\* stopped with their tasks cancelled while their transports are open.
C31_Witness ==
    \E c, d \in ConnIds :
        /\ ShutDown(c) /\ ShutDown(d)
        /\ conns[c].queue = PARTY /\ conns[d].queue # PARTY
        /\ conns[c].sf = "cancelled" /\ conns[d].sf = "cancelled"
        /\ ~conns[c].closing /\ ~conns[d].closing

\* ----------------------------------------------------------------- C32
\* the launch of the container of party p has failed
LaunchFailed(p) == p \in DOMAIN tasks /\ tasks[p].pc = "failed"

\* the party is ended: it is out of self.parties and none of the groups
\* of its slot is PLAYING in it
PartyEnded(p) ==
    /\ p \notin DOMAIN parties
    /\ \A g \in DOMAIN groups : groups[g].partyid # p

\* C32: when the launch of the container of a party fails, game:started is
\* not published on the party topic and the party is ended by end_game, so
\* that its groups are back in GROUP_CHECK with no party id.
C32_FailedLaunchEndsParty ==
    /\ [](\A p \in PartyIds : LaunchFailed(p) => ~PublishedStarted(p))
    /\ \A p \in PartyIds : LaunchFailed(p) ~> PartyEnded(p)

\* ----------------------------------------------------------------- C33
\* party p is created by this step: start_game writes self.parties[p]
PartyCreated(p) == p \notin DOMAIN parties /\ p \in DOMAIN parties'

\* the slot of the new party holds exactly capacity players, and each of
\* them is a member of a group of the slot that was in the queue in this
\* slot when the task started it
FullSlotOfQueuedGroups(p) ==
    LET slotid == parties'[p].slotid
        slot == slots'[slotid]
    IN
    /\ Len(slot.players) = capacity(parties'[p].gameid)
    /\ \A i \in 1..Len(slot.players) :
           \E j \in 1..Len(slot.groups) :
               /\ slot.groups[j] \in DOMAIN groups'
               /\ Contains(groups'[slot.groups[j]].members, slot.players[i])
               /\ groups'[slot.groups[j]].slotid = slotid
               /\ groups'[slot.groups[j]].partyid = p

\* C33: start_game runs only on a slot at capacity.  When a party is
\* created its slot holds exactly capacity players, all of them members of
\* groups queued in that slot, also when groups of the slot call
\* leave_queue, mark_as_not_ready or leave_group between the join_queue
\* that filled the slot and the start_game it scheduled.
C33_PartyOnlyFromFullSlot ==
    [][\A p \in PartyIds : PartyCreated(p) => FullSlotOfQueuedGroups(p)]_vars

\* ----------------------------------------------------------------- C34
\* this step schedules a start_game task
Scheduled == Len(tasks') = Len(tasks) + 1

\* a slot of the store comes to hold exactly capacity players by this step
ReachesCapacity(s) ==
    /\ s \in DOMAIN slots' /\ slots'[s].live
    /\ Len(slots'[s].players) = capacity(slots'[s].gameid)
    /\ ~(s \in DOMAIN slots /\ Len(slots[s].players) = capacity(slots[s].gameid))

\* start_game is scheduled by the step that brings a slot to capacity, for
\* that slot, and by no other step
ScheduledWhenFull ==
    /\ Scheduled => ReachesCapacity(tasks'[Len(tasks')].slotid)
    /\ \A s \in 1..MaxSlots : ReachesCapacity(s) =>
           Scheduled /\ tasks'[Len(tasks')].slotid = s

\* no two start_game tasks for one slot
ScheduledOncePerSlot ==
    \A p, q \in DOMAIN tasks : p # q => tasks[p].slotid # tasks[q].slotid

\* every party id held by a group or by a session is a key of self.parties
PartyIdsExist ==
    /\ \A g \in DOMAIN groups : groups[g].partyid # None => groups[g].partyid \in DOMAIN parties
    /\ \A u \in DOMAIN users : users[u].partyid # None => users[u].partyid \in DOMAIN parties

\* C34: over any sequence of join_queue and leave_queue, start_game is
\* scheduled exactly once for each slot that reaches capacity and never for
\* a slot below capacity, so that at most one party is created per slot and
\* every party id of a group or of a session names an existing party.
C34_OneStartGamePerFullSlot ==
    /\ [][ScheduledWhenFull]_vars
    /\ []ScheduledOncePerSlot
    /\ []PartyIdsExist

\* ----------------------------------------------------------------- C35
\* start_game task p has issued the publication of game:starting on
\* group:<g> and has not yet run the statements that follow it
GameStartingIssued(p, g) ==
    p \in DOMAIN tasks /\ tasks[p].pc = "send" /\ tasks[p].cur = g

GameOverAfterEndGame ==
    \A p \in PartyIds : PublishedOver(p) => p \notin DOMAIN parties

\* C35: the mutation of the store is committed before the event is
\* published.  game:starting is published on group:<g> only once the state
\* of g is PLAYING and its party id is set, and game:over on party:<p> only
\* once end_game(p) has completed.
C35_MutationBeforePublication ==
    /\ \A p \in PartyIds : \A g \in Players :
           GameStartingIssued(p, g) =>
               /\ g \in DOMAIN groups
               /\ groups[g].state = PLAYING
               /\ groups[g].partyid = p
    /\ GameOverAfterEndGame

\* ----------------------------------------------------------------- C36
\* the container of party p exits in this step
Exits(p) == p \in DOMAIN tasks /\ tasks[p].pc = "started" /\ tasks'[p].pc # "started"

\* end_game is performed and game:over is published
EndedAndPublished(p) == PublishedOver(p)' /\ p \notin DOMAIN parties'

\* game:over is published after game:started, and neither is published a
\* second time
StartedThenOverOnce(p) ==
    /\ (~PublishedOver(p) /\ PublishedOver(p)') => PublishedStarted(p)
    /\ PublishedStarted(p) => PublishedStarted(p)'
    /\ PublishedOver(p) => PublishedOver(p)'

\* C36: when the container of a party exits, end_game is performed and then
\* game:over is published on party:<p>; game:started precedes game:over on
\* the party topic and each is published at most once per party.
C36_GameOverAfterContainerExit ==
    [][\A p \in PartyIds : (Exits(p) => EndedAndPublished(p)) /\ StartedThenOverOnce(p)]_vars

\* ----------------------------------------------------------------- C37
\* the peer of an open stream is gone and its stop event is not yet set
ClosedUnnoticed(c) ==
    conns[c].pc = "waiting" /\ conns[c].closing /\ ~conns[c].stop

\* C37: once the transport of an open stream is closed its stop event is
\* eventually set (or the stream is ended by the cancellation of its
\* handler), by the forwarder on the next message or by the heartbeat on
\* its next tick; and neither task writes to the transport once it is
\* closing.
C37_ClosedTransportStopsStream ==
    /\ [](\A c \in ConnIds : ~conns[c].wrote_closed)
    /\ \A c \in ConnIds : ClosedUnnoticed(c) ~> (conns[c].stop \/ Ended(c))

\* A stream whose closed transport the heartbeat has noticed: no message
\* came (the forwarder still waits for one) and the stop event is set.
C37_Witness ==
    \E c \in ConnIds :
        /\ conns[c].pc = "waiting" /\ conns[c].closing /\ conns[c].stop
        /\ conns[c].hb = "done" /\ conns[c].sf = "receiving"

\* ----------------------------------------------------------------- C38
\* C38: for each of the three stream endpoints the greeting is published
\* on exactly the topic to which the stream subscribes, so that every
\* stream that stays open receives it.
C38_GreetingOnSubscribedTopic ==
    \A c \in ConnIds :
        conns[c].pc = "waiting" =>
            greetings(Store, conns[c].userid, conns[c].queue)
                = recv_messages(Store, conns[c].userid, conns[c].queue)

\* ----------------------------------------------------------------- C40
\* every entry of the index belongs to a user with an open stream on the
\* queue
EntriesOfOpenStreams ==
    \A q \in MsgQueueType : \A u \in DOMAIN stop_events[q] :
        \E c \in ConnIds : OpenStream(c, u, q)

\* a kick of a user without an open stream on the queue leaves the index
\* as it was
IdleKickKeepsIndex ==
    \A t \in KickTargets :
        (Kick(t[1], t[2]) /\ ~\E c \in ConnIds : OpenStream(c, t[1], t[2]))
            => stop_events' = stop_events

\* C40: the index of stop events has an entry for a queue and a user only
\* while that user has an open stream on that queue; a kick of a user with
\* no such stream creates no entry.
C40_IndexEntriesOnlyForOpenStreams ==
    []EntriesOfOpenStreams /\ [][IdleKickKeepsIndex]_vars

\* ======================================================================
\* The Redis session store, one call at a time
\* ======================================================================
\* The keys of Redis.  A key that is not set reads None (nil), a set that
\* has no member does not exist, a list that has no element does not exist.
RedisKeys ==
    [user_groupid  |-> [u \in Users |-> None],
     user_ready    |-> [u \in Users |-> "nil"],
     user_partyid  |-> [u \in Users |-> None],
     group_state   |-> [g \in GroupIds |-> "nil"],
     group_gameid  |-> [g \in GroupIds |-> None],
     group_slotid  |-> [g \in GroupIds |-> None],
     group_partyid |-> [g \in GroupIds |-> None],
     group_members |-> [g \in GroupIds |-> {}],
     game_queue    |-> [gm \in Games \cup GameIds |-> << >>],
     slot_players  |-> [s \in 1..MaxSlots |-> {}],
     slot_groups   |-> [s \in 1..MaxSlots |-> {}]]

RResult(rd, res) == [rd |-> rd, res |-> res]

RQResult(rd, res, sched, fresh) ==
    [rd |-> rd, res |-> res, sched |-> sched, fresh |-> fresh]

Redis_get_user(rd, userid) ==
    IF rd.user_groupid[userid] = None
    THEN [res |-> "PlayerNotInGroup"]
    ELSE [res |-> "ok",
          user |-> UserKVS(rd.user_groupid[userid], rd.user_partyid[userid],
                           rd.user_ready[userid] = "1")]

\* The members come out of SMEMBERS, in no order.
Redis_get_group(rd, groupid) ==
    IF rd.group_state[groupid] = "nil"
    THEN [res |-> "GroupDoesntExist"]
    ELSE IF rd.group_gameid[groupid] = None
    THEN [res |-> "TypeError"]
    ELSE [res |-> "ok",
          state |-> rd.group_state[groupid],
          members |-> rd.group_members[groupid],
          gameid |-> rd.group_gameid[groupid],
          slotid |-> rd.group_slotid[groupid],
          partyid |-> rd.group_partyid[groupid]]

Redis_create_group(rd, userid, gameid, groupid) ==
    IF rd.user_groupid[userid] # None
    THEN RResult(rd, "PlayerInGroupAlready")
    ELSE IF gameid \notin Games
    THEN RResult(rd, "NotFoundError")
    ELSE RResult([rd EXCEPT !.user_groupid[userid] = groupid,
                            !.user_ready[userid] = "0",
                            !.group_state[groupid] = GROUP_CHECK,
                            !.group_gameid[groupid] = gameid,
                            !.group_members[groupid] = @ \cup {userid}],
                 "ok")

RECURSIVE RunJoinGroupResult(_, _)
RunJoinGroupResult(rd, c) ==
    IF c.pc = "done" THEN c.res
    ELSE RunJoinGroupResult(Redis_join_group(rd, c).rd, Redis_join_group(rd, c).c)

\* join_group, its commands run one after another.
Redis_join_group_call(rd, groupid, userid) ==
    LET c == Call("get_user_groupid", groupid, userid, "none") IN
    RResult(RunJoinGroup(rd, c), RunJoinGroupResult(rd, c))

\* sent: whether the LREM that leave_queue issues without awaiting it goes
\* out to the server.
Redis_leave_queue(rd, groupid, sent) ==
    IF rd.group_gameid[groupid] = None
    THEN RResult(rd, "GroupDoesntExist")
    ELSE IF rd.group_state[groupid] = "nil"
    THEN RResult(rd, "ValueError")
    ELSE IF rd.group_state[groupid] # IN_QUEUE
    THEN RResult(rd, "WrongGroupState")
    ELSE IF rd.group_slotid[groupid] = None
    THEN RResult(rd, "AttributeError")
    ELSE
    LET gameid == rd.group_gameid[groupid]
        slotid == rd.group_slotid[groupid]
        rd1 == [rd EXCEPT !.slot_groups[slotid] = @ \ {groupid},
                          !.slot_players[slotid] = @ \ rd.group_members[groupid]]
        rd2 == IF rd1.slot_players[slotid] = {} /\ sent
                  /\ Contains(rd1.game_queue[gameid], slotid)
               THEN [rd1 EXCEPT !.game_queue[gameid] = ListRemove(@, slotid)]
               ELSE rd1
    IN RResult([rd2 EXCEPT !.group_state[groupid] = GROUP_CHECK], "ok")

Redis_group_cleanup(rd, groupid) ==
    IF rd.group_members[groupid] = {}
    THEN [rd EXCEPT !.group_gameid[groupid] = None,
                    !.group_state[groupid] = "nil",
                    !.group_slotid[groupid] = None,
                    !.group_partyid[groupid] = None]
    ELSE rd

\* leave_group and the group_cleanup task it leaves behind, which runs
\* before the next call.
Redis_leave_group(rd, userid, sent) ==
    IF rd.user_groupid[userid] = None
    THEN RResult(rd, "PlayerNotInGroup")
    ELSE
    LET groupid == rd.user_groupid[userid]
        state == rd.group_state[groupid]
        left == IF state = IN_QUEUE THEN Redis_leave_queue(rd, groupid, sent)
                ELSE RResult(rd, "ok")
    IN
    IF state = "nil"
    THEN RResult(rd, "ValueError")
    ELSE IF state \notin {GROUP_CHECK, IN_QUEUE}
    THEN RResult(rd, "WrongGroupState")
    ELSE IF left.res # "ok"
    THEN left
    ELSE RResult(Redis_group_cleanup(
                     [left.rd EXCEPT !.user_groupid[userid] = None,
                                     !.user_ready[userid] = "nil",
                                     !.group_members[groupid] = @ \ {userid}],
                     groupid),
                 "ok")

Redis_mark_as_ready(rd, userid) ==
    IF rd.user_groupid[userid] = None
    THEN RResult(rd, "PlayerNotInGroup")
    ELSE IF rd.group_state[rd.user_groupid[userid]] = "nil"
    THEN RResult(rd, "ValueError")
    ELSE IF rd.group_state[rd.user_groupid[userid]] \notin {GROUP_CHECK, PARTY_CHECK}
    THEN RResult(rd, "WrongGroupState")
    ELSE RResult([rd EXCEPT !.user_ready[userid] = "1"], "ok")

Redis_mark_as_not_ready(rd, userid, sent) ==
    IF rd.user_groupid[userid] = None
    THEN RResult(rd, "PlayerNotInGroup")
    ELSE
    LET groupid == rd.user_groupid[userid]
        state == rd.group_state[groupid]
        left == IF state = IN_QUEUE THEN Redis_leave_queue(rd, groupid, sent)
                ELSE RResult(rd, "ok")
    IN
    IF state = "nil"
    THEN RResult(rd, "ValueError")
    ELSE IF state \notin {GROUP_CHECK, IN_QUEUE, PARTY_CHECK}
    THEN RResult(rd, "WrongGroupState")
    ELSE IF left.res # "ok"
    THEN left
    ELSE RResult([left.rd EXCEPT !.user_ready[userid] = "0"], "ok")

Redis_is_group_ready(rd, groupid) ==
    \A u \in rd.group_members[groupid] : rd.user_ready[u] = "1"

\* slotid: the uuid4 drawn when no slot of the queue takes the group.
Redis_join_queue(rd, groupid, slotid) ==
    IF rd.group_gameid[groupid] = None
    THEN RQResult(rd, "GroupDoesntExist", None, FALSE)
    ELSE IF rd.group_state[groupid] = "nil"
    THEN RQResult(rd, "ValueError", None, FALSE)
    ELSE IF rd.group_state[groupid] # GROUP_CHECK
    THEN RQResult(rd, "WrongGroupState", None, FALSE)
    ELSE IF ~Redis_is_group_ready(rd, groupid)
    THEN RQResult(rd, "GroupNotReady", None, FALSE)
    ELSE
    LET rd1 == [rd EXCEPT !.group_state[groupid] = IN_QUEUE]
        gameid == rd.group_gameid[groupid]
        members == rd.group_members[groupid]
        m == Cardinality(members)
        q == rd.game_queue[gameid]
        I == {i \in 1..Len(q) :
                 Cardinality(rd.slot_players[q[i]]) + m <= capacity(gameid)}
    IN
    IF gameid \notin Games
    THEN RQResult(rd1, "NotFoundError", None, FALSE)
    ELSE IF I # {}
    THEN LET s == q[FirstIndex(I)] IN
         RQResult([rd1 EXCEPT !.group_slotid[groupid] = s,
                              !.slot_players[s] = @ \cup members,
                              !.slot_groups[s] = @ \cup {groupid}],
                  "ok",
                  IF Cardinality(rd.slot_players[s]) + m = capacity(gameid)
                  THEN s ELSE None,
                  FALSE)
    ELSE RQResult([rd1 EXCEPT !.group_slotid[groupid] = slotid,
                              !.slot_players[slotid] = members,
                              !.slot_groups[slotid] = @ \cup {groupid},
                              !.game_queue[gameid] = Append(@, slotid)],
                  "ok",
                  IF m = capacity(gameid) THEN slotid ELSE None,
                  TRUE)

\* ======================================================================
\* The two session stores given the same calls
\* ======================================================================
\* The games the calls name: a game of the games table whose slots the
\* users here cannot fill, so that no start_game is scheduled.
EquivGames == {GameC}

\* InMemory.mark_as_not_ready with the leave_queue it awaits.
Mem_mark_as_not_ready(st, userid) ==
    LET m == mark_as_not_ready(st, userid) IN
    IF m.res = "ok" /\ m.wait # None
    THEN leave_queue(m.st, m.wait)
    ELSE Result(m.st, m.res)

\* What get_group returns, the members as a set.
Mem_get_group(st, groupid) ==
    IF get_group(st, groupid) # "ok"
    THEN [res |-> get_group(st, groupid)]
    ELSE [res |-> "ok",
          state |-> st.groups[groupid].state,
          members |-> Range(st.groups[groupid].members),
          gameid |-> st.groups[groupid].gameid,
          slotid |-> st.groups[groupid].slotid,
          partyid |-> st.groups[groupid].partyid]

EquivCreateGroup(userid, gameid) ==
    LET m == create_group(Store, userid, gameid, nextGroup)
        r == Redis_create_group(redis, userid, gameid, nextGroup)
    IN
    /\ nextGroup <= MaxGroups
    /\ SetStore(m.st)
    /\ redis' = r.rd
    /\ nextGroup' = IF m.res = "ok" \/ r.res = "ok" THEN nextGroup + 1 ELSE nextGroup
    /\ UNCHANGED <<tasks, leaving, nextSlot, calls, gateVars, streamVars>>

EquivJoinGroup(groupid, userid) ==
    /\ SetStore(join_group(Store, groupid, userid).st)
    /\ redis' = Redis_join_group_call(redis, groupid, userid).rd
    /\ UNCHANGED <<tasks, leaving, nextGroup, nextSlot, calls, gateVars, streamVars>>

EquivLeaveGroup(userid, sent) ==
    /\ SetStore(leave_group(Store, userid).st)
    /\ redis' = Redis_leave_group(redis, userid, sent).rd
    /\ UNCHANGED <<tasks, leaving, nextGroup, nextSlot, calls, gateVars, streamVars>>

EquivMarkReady(userid) ==
    /\ SetStore(mark_as_ready(Store, userid).st)
    /\ redis' = Redis_mark_as_ready(redis, userid).rd
    /\ UNCHANGED <<tasks, leaving, nextGroup, nextSlot, calls, gateVars, streamVars>>

EquivMarkNotReady(userid, sent) ==
    /\ SetStore(Mem_mark_as_not_ready(Store, userid).st)
    /\ redis' = Redis_mark_as_not_ready(redis, userid, sent).rd
    /\ UNCHANGED <<tasks, leaving, nextGroup, nextSlot, calls, gateVars, streamVars>>

EquivJoinQueue(groupid) ==
    LET m == join_queue(Store, groupid, nextSlot)
        r == Redis_join_queue(redis, groupid, nextSlot)
    IN
    /\ nextSlot <= MaxSlots
    /\ m.sched = None /\ r.sched = None
    /\ SetStore(m.st)
    /\ redis' = r.rd
    /\ nextSlot' = IF m.fresh \/ r.fresh THEN nextSlot + 1 ELSE nextSlot
    /\ UNCHANGED <<tasks, leaving, nextGroup, calls, gateVars, streamVars>>

EquivLeaveQueue(groupid, sent) ==
    /\ SetStore(leave_queue(Store, groupid).st)
    /\ redis' = Redis_leave_queue(redis, groupid, sent).rd
    /\ UNCHANGED <<tasks, leaving, nextGroup, nextSlot, calls, gateVars, streamVars>>

InitEquiv ==
    /\ users = << >>
    /\ groups = << >>
    /\ queues = << >>
    /\ slots = << >>
    /\ parties = << >>
    /\ tasks = << >>
    /\ leaving = {}
    /\ nextGroup = 1
    /\ nextSlot = 1
    /\ redis = RedisKeys
    /\ calls = [r \in Calls |-> IdleCall]
    /\ now = 0
    /\ issued = {}
    /\ backend = "InMemory"
    /\ token_revocation_list = << >>
    /\ trl = << >>
    /\ response = NoResponse
    /\ conns = [c \in ConnIds |-> NoConn]
    /\ stop_events = [q \in MsgQueueType |-> << >>]
    /\ stream_tasks = << >>

NextEquiv ==
    \/ \E u \in Users, gm \in EquivGames : EquivCreateGroup(u, gm)
    \/ \E g \in GroupIds, u \in Users : EquivJoinGroup(g, u)
    \/ \E u \in Users, sent \in BOOLEAN : EquivLeaveGroup(u, sent)
    \/ \E u \in Users : EquivMarkReady(u)
    \/ \E u \in Users, sent \in BOOLEAN : EquivMarkNotReady(u, sent)
    \/ \E g \in GroupIds : EquivJoinQueue(g)
    \/ \E g \in GroupIds, sent \in BOOLEAN : EquivLeaveQueue(g, sent)

SpecEquiv == InitEquiv /\ [][NextEquiv]_vars

\* ------------------------------------------------------------------ C39
SameResults ==
    /\ \A u \in Users, gm \in EquivGames :
          nextGroup <= MaxGroups =>
             create_group(Store, u, gm, nextGroup).res
                = Redis_create_group(redis, u, gm, nextGroup).res
    /\ \A g \in GroupIds, u \in Users :
          join_group(Store, g, u).res = Redis_join_group_call(redis, g, u).res
    /\ \A u \in Users, sent \in BOOLEAN :
          /\ leave_group(Store, u).res = Redis_leave_group(redis, u, sent).res
          /\ Mem_mark_as_not_ready(Store, u).res
                = Redis_mark_as_not_ready(redis, u, sent).res
    /\ \A u \in Users :
          mark_as_ready(Store, u).res = Redis_mark_as_ready(redis, u).res
    /\ \A g \in GroupIds :
          nextSlot <= MaxSlots =>
             join_queue(Store, g, nextSlot).res
                = Redis_join_queue(redis, g, nextSlot).res
    /\ \A g \in GroupIds, sent \in BOOLEAN :
          leave_queue(Store, g).res = Redis_leave_queue(redis, g, sent).res

SameObservations ==
    /\ \A u \in Users : get_user(Store, u) = Redis_get_user(redis, u)
    /\ \A g \in GroupIds : Mem_get_group(Store, g) = Redis_get_group(redis, g)

\* C39: the Redis and the in-memory session stores are observationally
\* equivalent.  Given the same sequence of create_group, join_group,
\* leave_group, mark_as_ready, mark_as_not_ready, join_queue and leave_queue
\* calls, with the same fresh ids, the next call returns or raises the same
\* in both, and get_user and get_group report the same state, membership,
\* readiness, slot id and party id.
C39_BackendsObservationallyEquivalent == SameResults /\ SameObservations

====
